---- MODULE Spec2Model ----
(***************************************************************************)
(* Token-budgeted response builder of mcp-qdrant-memory:                   *)
(* TokenCounter (src/src/tokenCounter.ts) and StreamingResponseBuilder     *)
(* (src/src/config.ts, lines 313-753), with the calls of                   *)
(* buildStreamingResponse modelled as processes that interleave at their   *)
(* await points.                                                           *)
(*                                                                         *)
(* Text is run-length encoded: a string is a sequence of runs <<w, n>>,    *)
(* the word w repeated n times, so that a 100000-character path is one     *)
(* run.  The words the code searches for ('Defined in:', 'docstring', '/', *)
(* '(' ...) are always runs of their own.  JavaScript values are tagged    *)
(* records [t |-> tag, v |-> payload]; an object is the sequence of its    *)
(* <<key, value>> entries in insertion order.                              *)
(***************************************************************************)
EXTENDS Integers, Sequences, FiniteSets, TLC

----------------------------------------------------------------------------
(* Strings *)

S(w) == << <<w, 1>> >>

RECURSIVE StrLen(_)
StrLen(s) == IF s = <<>> THEN 0 ELSE Len(s[1][1]) * s[1][2] + StrLen(Tail(s))

\* String.prototype.includes for one of the searched words
Includes(s, w) == \E i \in 1..Len(s) : s[i][1] = w

StartsWith(s, w) == s # <<>> /\ s[1][1] = w

\* least index of a run of word w, 0 when there is none
RECURSIVE IndexOfFrom(_, _, _)
IndexOfFrom(s, w, i) ==
    IF i > Len(s) THEN 0
    ELSE IF s[i][1] = w THEN i ELSE IndexOfFrom(s, w, i + 1)

IndexOf(s, w) == IndexOfFrom(s, w, 1)

\* String.prototype.replace(w, ''): removes the first occurrence only
ReplaceFirst(s, w) ==
    LET i == IndexOf(s, w) IN
    IF i = 0 THEN s
    ELSE IF s[i][2] > 1
         THEN [s EXCEPT ![i] = <<w, s[i][2] - 1>>]
         ELSE SubSeq(s, 1, i - 1) \o SubSeq(s, i + 1, Len(s))

WhiteSpace == {" "}

RECURSIVE TrimStart(_)
TrimStart(s) ==
    IF s # <<>> /\ s[1][1] \in WhiteSpace THEN TrimStart(Tail(s)) ELSE s

RECURSIVE TrimEnd(_)
TrimEnd(s) ==
    IF s # <<>> /\ s[Len(s)][1] \in WhiteSpace
    THEN TrimEnd(SubSeq(s, 1, Len(s) - 1)) ELSE s

\* String.prototype.trim
Trim(s) == TrimEnd(TrimStart(s))

\* String.prototype.substring(0, n)
RECURSIVE Substring(_, _)
Substring(s, n) ==
    IF s = <<>> \/ n <= 0 THEN <<>>
    ELSE LET w    == s[1][1]
             full == Len(w) * s[1][2]
         IN IF full <= n THEN <<s[1]>> \o Substring(Tail(s), n - full)
            ELSE LET k == n \div Len(w)
                     r == n % Len(w)
                 IN (IF k > 0 THEN << <<w, k>> >> ELSE <<>>)
                    \o (IF r > 0 THEN << <<SubSeq(w, 1, r), 1>> >> ELSE <<>>)

\* filePath.split('/'): the first part, and whether there is more than one
SplitHead(s, sep) ==
    LET i == IndexOf(s, sep) IN IF i = 0 THEN s ELSE SubSeq(s, 1, i - 1)

SplitMany(s, sep) == Includes(s, sep)

\* greatest index of a run of word w, 0 when there is none
RECURSIVE LastIndexOfFrom(_, _, _)
LastIndexOfFrom(s, w, i) ==
    IF i < 1 THEN 0
    ELSE IF s[i][1] = w THEN i ELSE LastIndexOfFrom(s, w, i - 1)

RECURSIVE DropWhileIn(_, _)
DropWhileIn(s, ws) ==
    IF s # <<>> /\ s[1][1] \in ws THEN DropWhileIn(Tail(s), ws) ELSE s

\* docObs.replace(/.*docstring[:\s]*/, ''): the greedy .* runs to the last
\* 'docstring', then colons and white space after it are eaten
StripDocstringPrefix(s) ==
    LET i == LastIndexOfFrom(s, "docstring", Len(s)) IN
    IF i = 0 THEN s
    ELSE DropWhileIn(SubSeq(s, i + 1, Len(s)), WhiteSpace \cup {":"})

TruncationMarker == S("...[truncated]")

----------------------------------------------------------------------------
(* JavaScript values *)

JStr(s)  == [t |-> "str", v |-> s]
JNum(n)  == [t |-> "num", v |-> n]
JArr(a)  == [t |-> "arr", v |-> a]
JObj(f)  == [t |-> "obj", v |-> f]
JNull    == [t |-> "null", v |-> 0]
JUndef   == [t |-> "undef", v |-> 0]
JNaN     == [t |-> "nan", v |-> 0]
\* an object that holds a reference to itself (obj.self = obj)
JCyclic  == [t |-> "cyc", v |-> 0]

IsArr(x) == x.t = "arr"
IsObj(x) == x.t = "obj"
IsStr(x) == x.t = "str"
IsNullish(x) == x.t \in {"null", "undef"}

\* ToBoolean
Truthy(x) ==
    CASE x.t \in {"null", "undef", "nan"} -> FALSE
      [] x.t = "num" -> x.v # 0
      [] x.t = "str" -> x.v # <<>>
      [] OTHER -> TRUE

RECURSIVE FieldIndex(_, _, _)
FieldIndex(f, k, i) ==
    IF i > Len(f) THEN 0
    ELSE IF f[i][1] = k THEN i ELSE FieldIndex(f, k, i + 1)

\* o[k] for an object o and a literal key k
Get(o, k) ==
    LET i == FieldIndex(o.v, S(k), 1) IN
    IF i = 0 THEN JUndef ELSE o.v[i][2]

\* o[key] = val, keeping the insertion order of the keys
PutField(f, key, val) ==
    LET i == FieldIndex(f, key, 1) IN
    IF i = 0 THEN Append(f, <<key, val>>) ELSE [f EXCEPT ![i] = <<key, val>>]

RECURSIVE DigitsLen(_)
DigitsLen(n) ==
    IF n < 0 THEN 1 + DigitsLen(-n)
    ELSE IF n < 10 THEN 1 ELSE 1 + DigitsLen(n \div 10)

\* entries that JSON.stringify writes: undefined-valued ones are left out
Written(f) == SelectSeq(f, LAMBDA e : e[2].t # "undef")

\* the sum of q[lo..hi], by halves
RECURSIVE SumRange(_, _, _)
SumRange(q, lo, hi) ==
    IF lo > hi THEN 0
    ELSE IF lo = hi THEN q[lo]
    ELSE LET mid == (lo + hi) \div 2
         IN SumRange(q, lo, mid) + SumRange(q, mid + 1, hi)

Sum(q) == SumRange(q, 1, Len(q))

\* length of JSON.stringify(x, null, 2), x at nesting depth d: the items or
\* entries stand on lines of their own, indented, with ",\n" between them
RECURSIVE PrettyLen(_, _)
RECURSIVE PrettyItemsRange(_, _, _, _)
RECURSIVE PrettyFieldsRange(_, _, _, _)
\* the lines of the items a[lo..hi], by halves
PrettyItemsRange(a, d, lo, hi) ==
    IF lo > hi THEN 0
    ELSE IF lo = hi THEN 2 * d + PrettyLen(a[lo], d)
    ELSE LET mid == (lo + hi) \div 2
         IN PrettyItemsRange(a, d, lo, mid) + PrettyItemsRange(a, d, mid + 1, hi)
PrettyItemsLen(a, d) ==
    PrettyItemsRange(a, d, 1, Len(a)) + 2 * (Len(a) - 1)
\* the lines of the written entries among f[lo..hi], by halves
PrettyFieldsRange(f, d, lo, hi) ==
    IF lo > hi THEN 0
    ELSE IF lo = hi
    THEN IF f[lo][2].t = "undef" THEN 0
         ELSE 2 * d + (StrLen(f[lo][1]) + 2) + 2 + PrettyLen(f[lo][2], d)
    ELSE LET mid == (lo + hi) \div 2
         IN PrettyFieldsRange(f, d, lo, mid) + PrettyFieldsRange(f, d, mid + 1, hi)
WrittenCount(f) == Cardinality({i \in 1..Len(f) : f[i][2].t # "undef"})
PrettyFieldsLen(f, d) ==
    PrettyFieldsRange(f, d, 1, Len(f)) + 2 * (WrittenCount(f) - 1)
PrettyLen(x, d) ==
    CASE x.t = "str"  -> StrLen(x.v) + 2
      [] x.t = "num"  -> DigitsLen(x.v)
      [] x.t \in {"null", "nan", "undef"} -> 4
      [] x.t = "arr"  ->
            IF x.v = <<>> THEN 2
            ELSE 2 + PrettyItemsLen(x.v, d + 1) + 1 + 2 * d + 1
      [] x.t = "obj"  ->
            IF WrittenCount(x.v) = 0 THEN 2
            ELSE 2 + PrettyFieldsLen(x.v, d + 1) + 1 + 2 * d + 1

\* length of JSON.stringify(x): no white space, "," between the items
RECURSIVE CompactLen(_)
CompactLen(x) ==
    CASE x.t = "str"  -> StrLen(x.v) + 2
      [] x.t = "num"  -> DigitsLen(x.v)
      [] x.t \in {"null", "nan", "undef"} -> 4
      [] x.t = "arr"  ->
            IF x.v = <<>> THEN 2
            ELSE 2 + Sum([i \in 1..Len(x.v) |-> CompactLen(x.v[i])]) + (Len(x.v) - 1)
      [] x.t = "obj"  ->
            LET w == Written(x.v) IN
            IF w = <<>> THEN 2
            ELSE 2 + Sum([i \in 1..Len(w) |->
                            (StrLen(w[i][1]) + 2) + 1 + CompactLen(w[i][2])])
                 + (Len(w) - 1)

\* JSON.stringify(x) returns a string: x holds no cycle (it throws a
\* TypeError on one) and is not undefined (it returns undefined for that)
RECURSIVE HasCycle(_)
HasCycle(x) ==
    CASE x.t = "cyc" -> TRUE
      [] x.t = "arr" -> \E i \in 1..Len(x.v) : HasCycle(x.v[i])
      [] x.t = "obj" -> \E i \in 1..Len(x.v) : HasCycle(x.v[i][2])
      [] OTHER -> FALSE

----------------------------------------------------------------------------
(* TokenCounter, src/src/tokenCounter.ts *)

CHARS_PER_TOKEN == 4
\* SAFETY_MARGIN = 0.96, as the fraction SafetyMarginNum / SafetyMarginDen
SafetyMarginNum == 96
SafetyMarginDen == 100
LongStringThreshold == 500

CeilDiv(a, b) == (a + b - 1) \div b

\* estimateTokens on a string of the given length
estimateTokens(textLength) == CeilDiv(textLength, CHARS_PER_TOKEN)

\* estimateTokens(content) raises a TypeError: JSON.stringify throws on a
\* cycle, and returns undefined for undefined, whose .length is then read
estimateTokensThrows(content) ==
    ~IsStr(content) /\ (HasCycle(content) \/ content.t = "undef")

\* estimateTokens(content) for a string or any other value, lines 15-18
estimateTokensOf(content) ==
    IF IsStr(content) THEN estimateTokens(StrLen(content.v))
    ELSE estimateTokens(CompactLen(content))

\* estimateTokensWithFormatting(content) raises a TypeError
estimateTokensWithFormattingThrows(content) ==
    HasCycle(content) \/ content.t = "undef"

estimateTokensWithFormatting(content) == estimateTokens(PrettyLen(content, 0))

\* the safe limit rounded up
createBudgetCeil(totalLimit) ==
    LET safeLimit == CeilDiv(totalLimit * SafetyMarginNum, SafetyMarginDen) IN
    [total |-> safeLimit, used |-> 0, remaining |-> safeLimit]

createBudget(totalLimit) ==
    LET safeLimit == (totalLimit * SafetyMarginNum) \div SafetyMarginDen IN
    [total |-> safeLimit, used |-> 0, remaining |-> safeLimit]

\* remaining kept from going below zero
consumeTokensClamped(budget, tokens) ==
    [total     |-> budget.total,
     used      |-> budget.used + tokens,
     remaining |-> IF budget.remaining < tokens THEN 0
                   ELSE budget.remaining - tokens]

consumeTokens(budget, tokens) ==
    [total     |-> budget.total,
     used      |-> budget.used + tokens,
     remaining |-> budget.remaining - tokens]

\* fitsInBudget throws what the estimate of the content throws
fitsInBudgetThrows(budget, content) ==
    estimateTokensWithFormattingThrows(content)

\* fitsInBudget comparing the tokens of the content with the characters left
fitsInBudgetInChars(budget, content) ==
    estimateTokensWithFormatting(content) <= budget.remaining * CHARS_PER_TOKEN

fitsInBudget(budget, content) ==
    estimateTokensWithFormatting(content) <= budget.remaining

\* the formatting overhead forgotten: floor(remaining * 4)
getMaxContentSizeNoOverhead(budget) ==
    budget.remaining * CHARS_PER_TOKEN

\* floor(remaining * 4 * 0.8)
getMaxContentSize(budget) ==
    (budget.remaining * CHARS_PER_TOKEN * 8) \div 10

\* The loop of truncateArray from item i on.  maxTokens is the fraction
\* maxNum / maxDen (the caller passes remaining / 4).
RECURSIVE truncateArrayFrom(_, _, _, _, _, _)
truncateArrayFrom(arr, i, result, tokenCount, maxNum, maxDen) ==
    IF i > Len(arr) THEN [content |-> result, truncated |-> FALSE]
    ELSE LET itemTokens == estimateTokensWithFormatting(arr[i]) IN
         IF (tokenCount + itemTokens) * maxDen > maxNum /\ Len(result) > 0
         THEN [content |-> result, truncated |-> TRUE]
         ELSE truncateArrayFrom(arr, i + 1, Append(result, arr[i]),
                                tokenCount + itemTokens, maxNum, maxDen)

truncateArray(arr, maxNum, maxDen) ==
    IF Len(arr) = 0 THEN [content |-> arr, truncated |-> FALSE]
    ELSE truncateArrayFrom(arr, 1, <<>>, 0, maxNum, maxDen)

\* The loop of truncateObject over Object.entries(result) from entry i on
RECURSIVE truncateObjectFrom(_, _, _, _)
truncateObjectFrom(f, i, truncated, budget) ==
    IF i > Len(f) THEN [content |-> JObj(f), truncated |-> truncated]
    ELSE LET value == f[i][2] IN
         IF IsArr(value)
         THEN LET truncatedArray == truncateArray(value.v, budget.remaining, 4) IN
              IF truncatedArray.truncated
              THEN truncateObjectFrom(
                       [f EXCEPT ![i] = <<f[i][1], JArr(truncatedArray.content)>>],
                       i + 1, TRUE, budget)
              ELSE truncateObjectFrom(f, i + 1, truncated, budget)
         ELSE IF IsStr(value) /\ StrLen(value.v) > LongStringThreshold
         THEN truncateObjectFrom(
                  [f EXCEPT ![i] = <<f[i][1],
                       JStr(Substring(value.v, LongStringThreshold)
                            \o TruncationMarker)>>],
                  i + 1, TRUE, budget)
         ELSE truncateObjectFrom(f, i + 1, truncated, budget)

truncateObject(obj, budget) == truncateObjectFrom(obj.v, 1, FALSE, budget)

\* { ...arr }: the items of an array under the keys "0", "1", ...
SpreadArray(arr) ==
    JObj([i \in 1..Len(arr.v) |-> <<S(ToString(i - 1)), arr.v[i]>>])

\* a string cut to 80% of its own length, as the modes shrink their lists
truncateToFitShrinking(content, budget) ==
    IF estimateTokensWithFormatting(content) <= budget.remaining
    THEN [content |-> content, truncated |-> FALSE]
    ELSE IF IsObj(content) THEN truncateObject(content, budget)
    ELSE IF IsArr(content) THEN truncateObject(SpreadArray(content), budget)
    ELSE IF IsStr(content)
    THEN [content   |-> JStr(Substring(content.v, (StrLen(content.v) * 8) \div 10)
                             \o TruncationMarker),
          truncated |-> TRUE]
    ELSE [content |-> JNull, truncated |-> TRUE]

truncateToFit(content, budget) ==
    IF estimateTokensWithFormatting(content) <= budget.remaining
    THEN [content |-> content, truncated |-> FALSE]
    ELSE IF IsObj(content) THEN truncateObject(content, budget)
    ELSE IF IsArr(content) THEN truncateObject(SpreadArray(content), budget)
    ELSE IF IsStr(content)
    THEN [content   |-> JStr(Substring(content.v, getMaxContentSize(budget))
                             \o TruncationMarker),
          truncated |-> TRUE]
    ELSE [content |-> JNull, truncated |-> TRUE]

----------------------------------------------------------------------------
(* Array helpers *)

\* Array.prototype.slice(0, end)
Slice(a, end) ==
    LET e == IF end < 0 THEN (IF Len(a) + end < 0 THEN 0 ELSE Len(a) + end)
             ELSE (IF end > Len(a) THEN Len(a) ELSE end)
    IN SubSeq(a, 1, e)

\* Array.prototype.filter
FilterSeq(a, P(_)) == SelectSeq(a, P)

\* indices of the first occurrences in a, ascending
FirstOccurrences(a) ==
    SelectSeq([i \in 1..Len(a) |-> i],
              LAMBDA i : \A j \in 1..(i - 1) : a[j] # a[i])

\* Array.from(new Set(a)): first occurrences, in order
Distinct(a) ==
    LET first == FirstOccurrences(a) IN [k \in 1..Len(first) |-> a[first[k]]]

\* how often x occurs in a
Count(a, x) == Cardinality({i \in 1..Len(a) : a[i] = x})

\* observations.find(o => o.includes(w) for some w in ws): index, 0 = undefined
RECURSIVE FindIncluding(_, _, _)
FindIncluding(obs, ws, i) ==
    IF i > Len(obs) THEN 0
    ELSE IF \E w \in ws : Includes(obs[i].v, w) THEN i
    ELSE FindIncluding(obs, ws, i + 1)

DigitOf(c) ==
    CASE c = "0" -> 0 [] c = "1" -> 1 [] c = "2" -> 2 [] c = "3" -> 3
      [] c = "4" -> 4 [] c = "5" -> 5 [] c = "6" -> 6 [] c = "7" -> 7
      [] c = "8" -> 8 [] c = "9" -> 9 [] OTHER -> -1

\* parseInt over the runs of s from character i of the current word on
RECURSIVE ParseIntFrom(_, _, _, _)
ParseIntFrom(s, i, acc, seen) ==
    IF s = <<>> THEN (IF seen THEN JNum(acc) ELSE JNaN)
    ELSE IF i > Len(s[1][1])
         THEN ParseIntFrom(IF s[1][2] > 1
                           THEN <<<<s[1][1], s[1][2] - 1>>>> \o Tail(s)
                           ELSE Tail(s), 1, acc, seen)
    ELSE LET dg == DigitOf(SubSeq(s[1][1], i, i)) IN
         IF dg < 0 THEN (IF seen THEN JNum(acc) ELSE JNaN)
         ELSE ParseIntFrom(s, i + 1, acc * 10 + dg, TRUE)

ParseInt(s) == ParseIntFrom(TrimStart(s), 1, 0, FALSE)

----------------------------------------------------------------------------
(* StreamingResponseBuilder: the section builders, src/src/config.ts *)

DEFAULT_TOKEN_LIMIT == 25500
DefaultLimit == 50
KeyModulesCap == 10
DependenciesCap == 20
KeyUsagesCap == 30
DocstringPreview == 200
SignaturePreview == 100

\* entity.observations || []
ObservationsOrEmpty(e) ==
    LET o == Get(e, "observations") IN IF Truthy(o) THEN o.v ELSE <<>>

\* the path after 'Defined in:' of the first observation that has one;
\* <<>> stands for "no such observation"
DefinedIn(obs) ==
    LET i == FindIncluding(obs, {"Defined in:"}, 1) IN
    IF i = 0 THEN [found |-> FALSE, path |-> <<>>]
    ELSE [found |-> TRUE, path |-> Trim(ReplaceFirst(obs[i].v, "Defined in:"))]

\* the 'Defined in:' paths of the entities that have one, in input order
DefinedInPaths(ents) ==
    LET fo == [i \in 1..Len(ents) |-> DefinedIn(ObservationsOrEmpty(ents[i]))]
        at == SelectSeq([i \in 1..Len(ents) |-> i], LAMBDA i : fo[i].found)
    IN [k \in 1..Len(at) |-> fo[at[k]].path]

extractKeyModules(entities) ==
    LET paths == SelectSeq(DefinedInPaths(entities.v),
                           LAMBDA path : SplitMany(path, "/"))
        parts == [k \in 1..Len(paths) |-> JStr(SplitHead(paths[k], "/"))]
    IN Slice(Distinct(parts), KeyModulesCap)

\* breakdown[e.entityType] = (breakdown[e.entityType] || 0) + 1, for each e
breakdown(ents) ==
    LET types == [i \in 1..Len(ents) |-> Get(ents[i], "entityType").v]
        keys  == Distinct(types)
    IN [k \in 1..Len(keys) |-> <<keys[k], JNum(Count(types, keys[k]))>>]

\* a timestamp that leaves the milliseconds out on a whole minute
toISOStringShort(now) ==
    IF now = 0 THEN <<<<"2025-01-01T00:00:00Z", 1>>>>
    ELSE <<<<"2025-01-01T00:00:0", 1>>, <<ToString(now), 1>>, <<".000Z", 1>>>>

\* new Date().toISOString() when the clock shows `now`: 24 characters
toISOString(now) ==
    <<<<"2025-01-01T00:00:0", 1>>, <<ToString(now), 1>>, <<".000Z", 1>>>>

\* entities.forEach on a non-array and relations.length on null raise a
\* TypeError
buildSummarySectionThrows(entities, relations) ==
    ~IsArr(entities) \/ IsNullish(relations)

buildSummarySection(entities, relations, now) ==
    JObj(<< <<S("totalEntities"), JNum(Len(entities.v))>>,
            <<S("totalRelations"),
              IF IsArr(relations) THEN JNum(Len(relations.v)) ELSE JUndef>>,
            <<S("breakdown"), JObj(breakdown(entities.v))>>,
            <<S("keyModules"), JArr(extractKeyModules(entities))>>,
            <<S("timestamp"), JStr(toISOString(now))>> >>)

FileEntry(n) ==
    JObj(<< <<S("type"), JStr(S("file"))>>, <<S("entities"), JNum(n)>> >>)

\* one entry per file path, counting the entities defined in it
buildFileStructureSection(entities) ==
    LET paths == DefinedInPaths(entities.v)
        keys  == Distinct(paths)
    IN JObj([k \in 1..Len(keys) |-> <<keys[k], FileEntry(Count(paths, keys[k]))>>])

IsPublicOfType(e, types) ==
    Get(e, "entityType").v \in types /\ ~StartsWith(Get(e, "name").v, "_")

ClassTypes == {S("class")}
FunctionTypes == {S("function"), S("method")}

FileOf(obs) ==
    LET fo == DefinedIn(obs) IN JStr(IF fo.found THEN fo.path ELSE <<>>)

LineOf(obs) ==
    LET i == FindIncluding(obs, {"Line:"}, 1) IN
    IF i = 0 THEN JNum(0) ELSE ParseInt(Trim(ReplaceFirst(obs[i].v, "Line:")))

DocstringOf(obs) ==
    LET i == FindIncluding(obs, {"docstring", "Description"}, 1) IN
    IF i = 0 THEN JUndef
    ELSE JStr(Substring(Trim(StripDocstringPrefix(obs[i].v)), DocstringPreview))

SignatureOf(obs) ==
    LET i == FindIncluding(obs, {"Signature:", "("}, 1) IN
    IF i = 0 THEN JUndef
    ELSE JStr(Substring(Trim(obs[i].v), SignaturePreview))

ClassEntry(cls) ==
    LET obs == Get(cls, "observations").v IN
    JObj(<< <<S("name"), Get(cls, "name")>>,
            <<S("file"), FileOf(obs)>>,
            <<S("line"), LineOf(obs)>>,
            <<S("docstring"), DocstringOf(obs)>>,
            <<S("methods"), JArr(<<>>)>>,
            <<S("inherits"), JArr(<<>>)>> >>)

FunctionEntry(fn) ==
    LET obs == Get(fn, "observations").v IN
    JObj(<< <<S("name"), Get(fn, "name")>>,
            <<S("file"), FileOf(obs)>>,
            <<S("line"), LineOf(obs)>>,
            <<S("signature"), SignatureOf(obs)>>,
            <<S("docstring"), DocstringOf(obs)>> >>)

\* the candidates of one list of the API surface, in input order
ApiCandidates(entities, types) ==
    FilterSeq(entities.v, LAMBDA e : IsPublicOfType(e, types))

\* the entities whose entries make up one list of the API surface
ApiKept(entities, types, limit) == Slice(ApiCandidates(entities, types), limit)

\* cls.observations.find on an entity without observations raises a TypeError
buildApiSurfaceSectionThrows(entities, limit) ==
    \/ ~IsArr(entities)
    \/ \E types \in {ClassTypes, FunctionTypes} :
         LET kept == ApiKept(entities, types, limit) IN
         \E i \in 1..Len(kept) : ~IsArr(Get(kept[i], "observations"))

buildApiSurfaceSection(entities, relations, limit) ==
    LET classes   == ApiKept(entities, ClassTypes, limit)
        functions == ApiKept(entities, FunctionTypes, limit)
    IN JObj(<< <<S("classes"),
                 JArr([i \in 1..Len(classes) |-> ClassEntry(classes[i])])>>,
               <<S("functions"),
                 JArr([i \in 1..Len(functions) |-> FunctionEntry(functions[i])])>> >>)

IsPathLike(s) == Includes(s, "/") \/ Includes(s, ".py")

FromTo(r) == JObj(<< <<S("from"), Get(r, "from")>>, <<S("to"), Get(r, "to")>> >>)

FromToType(r) ==
    JObj(<< <<S("from"), Get(r, "from")>>, <<S("to"), Get(r, "to")>>,
            <<S("type"), Get(r, "relationType")>> >>)

RelationsOfType(relations, types) ==
    FilterSeq(relations.v, LAMBDA r : Get(r, "relationType").v \in types)

buildDependenciesSection(entities, relations) ==
    LET importRelations == RelationsOfType(relations, {S("imports")})
        ext == FilterSeq(importRelations, LAMBDA r : ~IsPathLike(Get(r, "to").v))
        int == FilterSeq(importRelations, LAMBDA r : IsPathLike(Get(r, "to").v))
    IN JObj(<< <<S("external"),
                 JArr(Slice(Distinct([i \in 1..Len(ext) |-> Get(ext[i], "to")]),
                            DependenciesCap))>>,
               <<S("internal"),
                 JArr(Slice([i \in 1..Len(int) |-> FromTo(int[i])],
                            DependenciesCap))>> >>)

buildRelationsSection(relations) ==
    LET inh == RelationsOfType(relations, {S("inherits")})
        use == Slice(RelationsOfType(relations,
                         {S("calls"), S("uses"), S("implements")}), KeyUsagesCap)
    IN JObj(<< <<S("inheritance"), JArr([i \in 1..Len(inh) |-> FromTo(inh[i])])>>,
               <<S("keyUsages"), JArr([i \in 1..Len(use) |-> FromToType(use[i])])>> >>)

----------------------------------------------------------------------------
(* Inputs *)

MaxEntities == 2
MaxRelations == 2
MaxClock == 1
NumCalls == 2
\* length of the long names and path segments of the input catalogue, and
\* of a docstring longer than its preview, in characters
LongText == 60000
DocText == 300
\* length of a top-level directory whose name leaves, after the summary,
\* less than the reservation of the structure section
ReserveText == 94800

Obs(s) == JStr(s)

Entity(name, entityType, observations) ==
    JObj(<< <<S("name"), JStr(name)>>,
            <<S("entityType"), JStr(S(entityType))>>,
            <<S("observations"), observations>> >>)

Relation(from, to, relationType) ==
    JObj(<< <<S("from"), JStr(from)>>,
            <<S("to"), JStr(to)>>,
            <<S("relationType"), JStr(S(relationType))>> >>)

\* 'Defined in: <dir>/a.py' with a top-level directory of LongText letters w
DefinedInLong(w) ==
    Obs(<<<<"Defined in:", 1>>, <<" ", 1>>, <<w, LongText>>, <<"/", 1>>,
          <<"a", 1>>, <<".py", 1>>>>)

\* an undocumented public class
eBaz == Entity(S("Baz"), "class", JArr(<<>>))
\* a documented public class in src/foo.py
eFoo == Entity(S("Foo"), "class",
               JArr(<<Obs(<<<<"Defined in:", 1>>, <<" ", 1>>, <<"src", 1>>,
                             <<"/", 1>>, <<"foo", 1>>, <<".py", 1>>>>),
                      Obs(<<<<"Line:", 1>>, <<" ", 1>>, <<"11", 1>>>>),
                      Obs(<<<<"docstring", 1>>, <<":", 1>>, <<" ", 1>>,
                             <<"x", DocText>>>>)>>))
\* a private function with a signature
eBar == Entity(<<<<"_", 1>>, <<"bar", 1>>>>, "function",
               JArr(<<Obs(<<<<"Signature:", 1>>, <<" ", 1>>, <<"bar", 1>>,
                             <<"(", 1>>, <<")", 1>>>>)>>))
\* two public functions, each below a long top-level directory of its own
eDeepX == Entity(S("deepx"), "function", JArr(<<DefinedInLong("x")>>))
eDeepY == Entity(S("deepy"), "function", JArr(<<DefinedInLong("y")>>))
\* a public class with a long name
eLongName == Entity(<<<<"n", LongText>>>>, "class", JArr(<<>>))
\* a public class that lacks the observations field
eNoObs == Entity(S("Bare"), "class", JUndef)

EntityCatalogue == {eBaz, eFoo, eBar, eDeepX, eDeepY, eLongName, eNoObs}

rCalls == Relation(S("Foo"), S("Baz"), "calls")
rImportsLong == Relation(S("Foo"), <<<<"p", LongText>>>>, "imports")
rInheritsLong == Relation(<<<<"n", LongText>>>>, S("Foo"), "inherits")

RelationCatalogue == {rCalls, rImportsLong, rInheritsLong}

SeqsUpTo(cat, n) == UNION {[1..k -> cat] : k \in 0..n}

\* DefaultLimit + 1 small entities: more than the default limit allows
ManyEntities == [i \in 1..(DefaultLimit + 1) |-> eBaz]

\* a private function before two long classes: filtered, then shrunk
MixedLong == <<eBar, eLongName, eLongName>>

EntityInputs ==
    {JArr(a) : a \in SeqsUpTo(EntityCatalogue, MaxEntities)
                     \cup {ManyEntities, MixedLong}}
    \cup {JNull}

RelationInputs ==
    {JArr(a) : a \in SeqsUpTo(RelationCatalogue, MaxRelations)} \cup {JNull}

Options(mode, limit, entityTypes) ==
    JObj(<< <<S("mode"), mode>>, <<S("limit"), limit>>,
            <<S("entityTypes"), entityTypes>> >>)

Mode(m) == JStr(S(m))

LimitInputs == {JUndef, JNum(1)}

EntityTypesInputs == {JUndef, JArr(<<JStr(S("class"))>>)}

\* The calls, by mode.  A mode is given the arguments it reads in all their
\* variety and one value for those it never looks at.
SmartInputs ==
    [entities : EntityInputs, relations : RelationInputs,
     options : {Options(JUndef, JUndef, JUndef),
                Options(Mode("smart"), JNum(1), JUndef)}]

EntitiesInputs ==
    [entities : EntityInputs, relations : {JArr(<<>>)},
     options : {Options(Mode("entities"), l, t) :
                    l \in LimitInputs, t \in EntityTypesInputs}]

RelationshipsInputs ==
    [entities : {JArr(<<eFoo>>)}, relations : RelationInputs,
     options : {Options(Mode("relationships"), JUndef, JUndef)}]

RawInputs ==
    [entities : EntityInputs, relations : RelationInputs,
     options : {Options(Mode("raw"), JUndef, JUndef)}]

\* a variable below a directory whose name takes most of the budget
eWideDir == Entity(S("cfg"), "variable",
                   JArr(<<Obs(<<<<"Defined in:", 1>>, <<" ", 1>>,
                                <<"d", ReserveText>>, <<"/", 1>>,
                                <<"x", 1>>, <<".py", 1>>>>)>>))

ReserveInputs ==
    [entities : {JArr(<<eWideDir>>), JArr(<<eWideDir, eFoo>>)},
     relations : {JArr(<<>>), JArr(<<rCalls>>)},
     options : {Options(JUndef, JUndef, JUndef)}]

rInherits == Relation(S("Bar"), S("Foo"), "inherits")
rUses == Relation(S("Bar"), S("Baz"), "uses")

\* one relation more than the cap of keyUsages, of one type and mixed
CapInputs ==
    [entities : {JArr(<<eFoo>>)},
     relations : {JArr([i \in 1..(KeyUsagesCap + 1) |-> rCalls]),
                  JArr([i \in 1..(KeyUsagesCap + 1) |-> rInherits]),
                  JArr([i \in 1..(KeyUsagesCap + 1) |->
                           IF i % 3 = 0 THEN rInherits
                           ELSE IF i % 3 = 1 THEN rUses ELSE rCalls]),
                  JArr(<<rInherits, rUses, rImportsLong, rCalls>>)},
     options : {Options(JUndef, JUndef, JUndef)}]

UnknownModeInputs ==
    [entities : {JArr(<<eFoo>>)}, relations : {JArr(<<rCalls>>)},
     options : {Options(Mode("invalid_mode"), JUndef, JUndef)}]

Times == 0..MaxClock

----------------------------------------------------------------------------
(* State *)

VARIABLES
    calls,            \* per call of buildStreamingResponse: its frame
    running,          \* the call that holds the JavaScript thread, 0 if none
    sectionsIncluded, \* the string[] arrays the calls allocate, by cell
    probe,            \* a direct use of the tokenCounter singleton: its
                      \* arguments and what the methods returned
    qdrant,           \* the QdrantPersistence object: its initialized flag
                      \* and the points of its collection
    ops               \* per call of connect() or of a KnowledgeGraphManager
                      \* method: its frame

vars == <<calls, running, sectionsIncluded, probe, qdrant, ops>>

\* what the response builder and the token counter leave alone
store == <<qdrant, ops>>

\* what the persistence layer and the graph manager leave alone
builder == <<calls, running, sectionsIncluded, probe>>

NumOps == 2
OpIds == 1..NumOps

\* a call that has not been made
IdleOp ==
    [name |-> "", pc |-> "idle", args |-> <<>>, i |-> 0,
     snapshot |-> [entities |-> <<>>, relations |-> <<>>],
     related |-> <<>>, j |-> 0, result |-> [entities |-> <<>>, relations |-> <<>>],
     error |-> "", retries |-> 0, delay |-> 0,
     requests |-> 0, timers |-> <<>>, sawInitialized |-> FALSE,
     upserts |-> <<>>, deletes |-> <<>>, snapped |-> FALSE,
     readBefore |-> {}]

\* a QdrantPersistence just constructed
NewPersistence == [initialized |-> FALSE, points |-> {}, indexed |-> 0]

\* the calls that have returned or thrown, and the calls that have read the
\* graph they work on
Returned == {o \in OpIds : ops[o].pc \in {"done", "failed", "returned", "thrown"}}
Snapped == {o \in OpIds : ops[o].snapped}

\* the frames are taken in the order of the calls
NextFrame(k) == \A o \in 1..(k - 1) : ops[o].pc # "idle"

StoreIdle ==
    /\ qdrant = NewPersistence
    /\ ops = [k \in OpIds |-> IdleOp]

CallIds == 1..NumCalls

\* the array `const sectionsIncluded: string[] = []` of a call is its own
SectionsCell(c) == c

EmptyGraph ==
    JObj(<< <<S("entities"), JArr(<<>>)>>, <<S("relations"), JArr(<<>>)>> >>)

GraphOf(entities, relations) ==
    JObj(<< <<S("entities"), entities>>, <<S("relations"), relations>> >>)

\* A StreamingGraphResponse.  meta.sectionsIncluded is either the array of
\* cell `ref` (ref > 0) or the array literal `lit`.
Response(content, tokenCount, tokenLimit, truncated, truncationReason, ref, lit) ==
    [content |-> content,
     meta |-> [tokenCount |-> tokenCount, tokenLimit |-> tokenLimit,
               truncated |-> truncated, truncationReason |-> truncationReason,
               ref |-> ref, lit |-> lit]]

NoResponse == Response(JUndef, 0, 0, FALSE, JUndef, 0, <<>>)

NoPending == [status |-> "none", resp |-> NoResponse, error |-> <<>>]
Fulfilled(resp) == [status |-> "fulfilled", resp |-> resp, error |-> <<>>]
Rejected(error) == [status |-> "rejected", resp |-> NoResponse, error |-> error]

TypeError == S("TypeError")

\* the catch block returning the locals truncated and truncationReason of
\* lines 338-339
ErrorResponseFromLocals(error) ==
    Response(EmptyGraph, 0, DEFAULT_TOKEN_LIMIT, FALSE, JUndef, 0, <<>>)

\* the response of the catch block of buildStreamingResponse
ErrorResponse(error) ==
    Response(EmptyGraph, 0, DEFAULT_TOKEN_LIMIT, TRUE,
             JStr(S("Error building response: ") \o error), 0, <<>>)

IdleFrame ==
    [pc |-> "idle", entities |-> JUndef, relations |-> JUndef,
     options |-> JUndef, budget |-> createBudget(0), smartGraph |-> <<>>,
     truncated |-> FALSE, truncationReason |-> JUndef,
     filtered |-> <<>>, work |-> <<>>,
     pending |-> NoPending, result |-> NoResponse]

\* options.mode || 'smart'
ModeOf(options) ==
    IF Truthy(Get(options, "mode")) THEN Get(options, "mode").v ELSE S("smart")

\* options.limit || 50
LimitOf(options) ==
    IF Truthy(Get(options, "limit")) THEN Get(options, "limit").v ELSE DefaultLimit

KnownModes == {S("smart"), S("entities"), S("relationships"), S("raw")}

StartPc(mode) ==
    CASE mode = S("smart") -> "summary"
      [] mode = S("entities") -> "entities"
      [] mode = S("relationships") -> "relationships"
      [] mode = S("raw") -> "raw"

\* what truncateToFit and truncateArray return
Truncation(content, truncated) == [content |-> content, truncated |-> truncated]

\* the tokenCounter has not been used directly
NoProbe ==
    [op |-> "none", content |-> JUndef, limit |-> 0,
     budget |-> createBudget(0), before |-> createBudget(0), tokens |-> 0,
     consumed |-> 0, out |-> Truncation(JUndef, FALSE),
     again |-> Truncation(JUndef, FALSE), threw |-> FALSE]

Init ==
    /\ calls = [c \in CallIds |-> IdleFrame]
    /\ running = 0
    /\ sectionsIncluded = [c \in CallIds |-> <<>>]
    /\ probe = NoProbe
    /\ StoreIdle

\* the inner builder returned or threw: buildStreamingResponse reaches its
\* `return await` and gives up the thread
Settle(c, frame, pending) ==
    /\ calls' = [calls EXCEPT ![c] = [frame EXCEPT !.pc = "awaiting",
                                                   !.pending = pending]]
    /\ running' = 0

\* one more synchronous step of call c
Continue(c, frame) ==
    /\ calls' = [calls EXCEPT ![c] = frame]
    /\ running' = c

\* buildStreamingResponse is called: lines 332-353 up to the dispatch
Invoke(c, in) ==
    /\ running = 0
    /\ calls[c].pc = "idle"
    /\ LET mode  == ModeOf(in.options)
           frame == [IdleFrame EXCEPT !.entities = in.entities,
                                      !.relations = in.relations,
                                      !.options = in.options,
                                      !.budget = createBudget(DEFAULT_TOKEN_LIMIT)]
       IN /\ sectionsIncluded' = [sectionsIncluded EXCEPT ![SectionsCell(c)] = <<>>]
          /\ IF mode \in KnownModes
             THEN Continue(c, [frame EXCEPT !.pc = StartPc(mode)])
             ELSE \* default: throw, caught in the same synchronous run
                  /\ calls' = [calls EXCEPT ![c] =
                        [frame EXCEPT !.pc = "done",
                                      !.result = ErrorResponse(
                                          S("Error: Unknown mode: ") \o mode)]]
                  /\ running' = 0
    /\ UNCHANGED <<probe, store>>

\* the continuation after `return await`: the response is returned, or the
\* rejection is caught and the basic response is returned
Resume(c) ==
    /\ running = 0
    /\ calls[c].pc = "awaiting"
    /\ calls' = [calls EXCEPT ![c] =
          [@ EXCEPT !.pc = "done",
                    !.result = IF calls[c].pending.status = "rejected"
                               THEN ErrorResponse(calls[c].pending.error)
                               ELSE calls[c].pending.resp]]
    /\ UNCHANGED <<running, sectionsIncluded>>
    /\ UNCHANGED <<probe, store>>

\* the name put in front of the list
PushFront(c, name) ==
    sectionsIncluded' =
        [sectionsIncluded EXCEPT ![SectionsCell(c)] = <<name>> \o @]

Push(c, name) ==
    sectionsIncluded' =
        [sectionsIncluded EXCEPT ![SectionsCell(c)] = Append(@, name)]

\* every section handled as an optional one: left out when it does not fit
FitOrSkip(frame, key, section, mandatory) ==
    IF fitsInBudget(frame.budget, section)
    THEN [frame |-> [frame EXCEPT
                        !.smartGraph = Append(@, <<S(key), section>>),
                        !.budget = consumeTokens(@,
                                       estimateTokensWithFormatting(section))],
          name |-> key]
    ELSE [frame |-> frame, name |-> ""]

\* One section of smart mode that is tried in full and then truncated
\* (lines 385-396, 401-413, ...): the frame after it and the name pushed,
\* "" when the section is left out.
FitOrTruncate(frame, key, section, mandatory) ==
    IF fitsInBudget(frame.budget, section)
    THEN [frame |-> [frame EXCEPT
                        !.smartGraph = Append(@, <<S(key), section>>),
                        !.budget = consumeTokens(@,
                                       estimateTokensWithFormatting(section))],
          name |-> key]
    ELSE LET tr == truncateToFit(section, frame.budget) IN
         IF mandatory \/ Truthy(tr.content)
         THEN [frame |-> [frame EXCEPT
                             !.smartGraph = Append(@, <<S(key), tr.content>>),
                             !.budget = consumeTokens(@,
                                 estimateTokensWithFormatting(tr.content)),
                             !.truncated = TRUE],
               name |-> key \o " (truncated)"]
         ELSE [frame |-> frame, name |-> ""]

STRUCTURE_RESERVE == 1000
API_SURFACE_RESERVE == 500
DEPENDENCIES_RESERVE == 300
RELATIONS_RESERVE == 200

\* Section 1: Summary, lines 383-396; new Date() shows `now`
SectionSummary(c, now) ==
    /\ running = c
    /\ calls[c].pc = "summary"
    /\ LET f == calls[c] IN
       IF \/ buildSummarySectionThrows(f.entities, f.relations)
          \/ fitsInBudgetThrows(f.budget,
                 buildSummarySection(f.entities, f.relations, now))
       THEN /\ Settle(c, f, Rejected(TypeError))
            /\ UNCHANGED sectionsIncluded
       ELSE LET r == FitOrTruncate(f, "summary",
                         buildSummarySection(f.entities, f.relations, now), TRUE)
            IN /\ Continue(c, [r.frame EXCEPT !.pc = "structure"])
               /\ Push(c, r.name)
    /\ UNCHANGED <<probe, store>>

\* the structure section tried whatever is left of the budget
SectionStructureUnreserved(c) ==
    /\ running = c
    /\ calls[c].pc = "structure"
    /\ LET f == calls[c]
           r == FitOrTruncate(f, "structure",
                              buildFileStructureSection(f.entities), FALSE)
       IN /\ Continue(c, [r.frame EXCEPT !.pc = "apiSurface"])
          /\ IF r.name = "" THEN UNCHANGED sectionsIncluded
             ELSE Push(c, r.name)
    /\ UNCHANGED <<probe, store>>

\* Section 2: File Structure, lines 398-414
SectionStructure(c) ==
    /\ running = c
    /\ calls[c].pc = "structure"
    /\ LET f == calls[c] IN
       IF f.budget.remaining > STRUCTURE_RESERVE
       THEN IF fitsInBudgetThrows(f.budget, buildFileStructureSection(f.entities))
            THEN /\ Settle(c, f, Rejected(TypeError))
                 /\ UNCHANGED sectionsIncluded
            ELSE LET r == FitOrTruncate(f, "structure",
                              buildFileStructureSection(f.entities), FALSE)
                 IN /\ Continue(c, [r.frame EXCEPT !.pc = "apiSurface"])
                    /\ IF r.name = "" THEN UNCHANGED sectionsIncluded
                       ELSE Push(c, r.name)
       ELSE /\ Continue(c, [f EXCEPT !.pc = "apiSurface"])
            /\ UNCHANGED sectionsIncluded
    /\ UNCHANGED <<probe, store>>

\* Section 3: API Surface, lines 416-432
SectionApiSurface(c) ==
    /\ running = c
    /\ calls[c].pc = "apiSurface"
    /\ LET f     == calls[c]
           limit == LimitOf(f.options)
       IN
       IF f.budget.remaining > API_SURFACE_RESERVE
       THEN IF \/ buildApiSurfaceSectionThrows(f.entities, limit)
               \/ fitsInBudgetThrows(f.budget,
                      buildApiSurfaceSection(f.entities, f.relations, limit))
            THEN /\ Settle(c, f, Rejected(TypeError))
                 /\ UNCHANGED sectionsIncluded
            ELSE LET r == FitOrTruncate(f, "apiSurface",
                              buildApiSurfaceSection(f.entities, f.relations,
                                                     limit), FALSE)
                 IN /\ Continue(c, [r.frame EXCEPT !.pc = "dependencies"])
                    /\ IF r.name = "" THEN UNCHANGED sectionsIncluded
                       ELSE Push(c, r.name)
       ELSE /\ Continue(c, [f EXCEPT !.pc = "dependencies"])
            /\ UNCHANGED sectionsIncluded
    /\ UNCHANGED <<probe, store>>

\* Section 4: Dependencies, lines 434-450
SectionDependencies(c) ==
    /\ running = c
    /\ calls[c].pc = "dependencies"
    /\ LET f == calls[c] IN
       IF f.budget.remaining > DEPENDENCIES_RESERVE
       THEN IF fitsInBudgetThrows(f.budget,
                   buildDependenciesSection(f.entities, f.relations))
            THEN /\ Settle(c, f, Rejected(TypeError))
                 /\ UNCHANGED sectionsIncluded
            ELSE LET r == FitOrTruncate(f, "dependencies",
                              buildDependenciesSection(f.entities, f.relations),
                              FALSE)
                 IN /\ Continue(c, [r.frame EXCEPT !.pc = "relations"])
                    /\ IF r.name = "" THEN UNCHANGED sectionsIncluded
                       ELSE Push(c, r.name)
       ELSE /\ Continue(c, [f EXCEPT !.pc = "relations"])
            /\ UNCHANGED sectionsIncluded
    /\ UNCHANGED <<probe, store>>

RelationsExcluded == JStr(S("Relations section excluded due to token limit"))

\* the return statement of buildSmartStreamingResponse, lines 468-477
SmartResponse(c, f) ==
    Response(JObj(f.smartGraph), f.budget.used, f.budget.total,
             f.truncated, f.truncationReason, SectionsCell(c), <<>>)

\* Section 5 tried only when there are relations, left out otherwise
SectionRelationsIfAny(c) ==
    /\ running = c
    /\ calls[c].pc = "relations"
    /\ LET f       == calls[c]
           section == buildRelationsSection(f.relations)
       IN
       IF f.budget.remaining > RELATIONS_RESERVE
          /\ fitsInBudgetThrows(f.budget, section)
       THEN /\ Settle(c, f, Rejected(TypeError))
            /\ UNCHANGED sectionsIncluded
       ELSE
       IF /\ Len(f.relations.v) > 0
          /\ f.budget.remaining > RELATIONS_RESERVE /\ fitsInBudget(f.budget, section)
       THEN LET g == [f EXCEPT
                        !.smartGraph = Append(@, <<S("relations"), section>>),
                        !.budget = consumeTokens(@,
                                       estimateTokensWithFormatting(section))]
            IN /\ Settle(c, g, Fulfilled(SmartResponse(c, g)))
               /\ Push(c, "relations")
       ELSE LET g == [f EXCEPT !.truncated = TRUE,
                               !.truncationReason = RelationsExcluded]
            IN /\ Settle(c, g, Fulfilled(SmartResponse(c, g)))
               /\ UNCHANGED sectionsIncluded
    /\ UNCHANGED <<probe, store>>

\* Section 5: Relations, and the return, lines 452-477
SectionRelations(c) ==
    /\ running = c
    /\ calls[c].pc = "relations"
    /\ LET f       == calls[c]
           section == buildRelationsSection(f.relations)
       IN
       IF f.budget.remaining > RELATIONS_RESERVE
          /\ fitsInBudgetThrows(f.budget, section)
       THEN /\ Settle(c, f, Rejected(TypeError))
            /\ UNCHANGED sectionsIncluded
       ELSE
       IF f.budget.remaining > RELATIONS_RESERVE /\ fitsInBudget(f.budget, section)
       THEN LET g == [f EXCEPT
                        !.smartGraph = Append(@, <<S("relations"), section>>),
                        !.budget = consumeTokens(@,
                                       estimateTokensWithFormatting(section))]
            IN /\ Settle(c, g, Fulfilled(SmartResponse(c, g)))
               /\ Push(c, "relations")
       ELSE LET g == [f EXCEPT !.truncated = TRUE,
                               !.truncationReason = RelationsExcluded]
            IN /\ Settle(c, g, Fulfilled(SmartResponse(c, g)))
               /\ UNCHANGED sectionsIncluded
    /\ UNCHANGED <<probe, store>>

----------------------------------------------------------------------------
(* entities, relationships and raw mode *)

SHRINK_NUM == 8
SHRINK_DEN == 10

\* the length rounded up
ShrunkLengthCeil(n) == CeilDiv(n * SHRINK_NUM, SHRINK_DEN)

\* Math.floor(length * 0.8)
ShrunkLength(n) == (n * SHRINK_NUM) \div SHRINK_DEN

\* the reason with the two lengths exchanged
ReducedReasonSwapped(n, m, what) ==
    JStr(<<<<"Reduced from ", 1>>, <<ToString(m), 1>>, <<" to ", 1>>,
           <<ToString(n), 1>>, <<" " \o what, 1>>>>)

\* `Reduced from ${n} to ${m} ${what}`
ReducedReason(n, m, what) ==
    JStr(<<<<"Reduced from ", 1>>, <<ToString(n), 1>>, <<" to ", 1>>,
           <<ToString(m), 1>>, <<" " \o what, 1>>>>)

\* options.entityTypes && options.entityTypes.length > 0
HasTypeFilter(options) ==
    LET et == Get(options, "entityTypes") IN IsArr(et) /\ Len(et.v) > 0

\* lines 489-499: the filter by type, then the limit
FilterThrows(entities, options) ==
    ~IsArr(entities)
    /\ (HasTypeFilter(options) \/ Truthy(Get(options, "limit")))

\* the limit applied, the filter by type forgotten
FilteredEntitiesLimitOnly(entities, options) ==
    IF Truthy(Get(options, "limit"))
    THEN JArr(Slice(entities.v, Get(options, "limit").v))
    ELSE entities

FilteredEntities(entities, options) ==
    LET byType == IF HasTypeFilter(options)
                  THEN JArr(FilterSeq(entities.v,
                            LAMBDA e : \E i \in 1..Len(Get(options, "entityTypes").v) :
                                Get(options, "entityTypes").v[i] = Get(e, "entityType")))
                  ELSE entities
    IN IF Truthy(Get(options, "limit"))
       THEN JArr(Slice(byType.v, Get(options, "limit").v))
       ELSE byType

\* buildEntitiesStreamingResponse up to the first fit check, lines 489-513
EntitiesStart(c) ==
    /\ running = c
    /\ calls[c].pc = "entities"
    /\ LET f == calls[c] IN
       IF FilterThrows(f.entities, f.options)
       THEN Settle(c, f, Rejected(TypeError))
       ELSE LET filteredEntities == FilteredEntities(f.entities, f.options)
                entitiesResponse == GraphOf(filteredEntities, JArr(<<>>))
            IN IF fitsInBudgetThrows(f.budget, entitiesResponse)
               THEN Settle(c, f, Rejected(TypeError))
               ELSE
               IF fitsInBudget(f.budget, entitiesResponse)
               THEN Settle(c, f, Fulfilled(
                        Response(entitiesResponse,
                                 estimateTokensWithFormatting(entitiesResponse),
                                 f.budget.total, FALSE, JUndef, 0, <<"entities">>)))
               ELSE Continue(c, [f EXCEPT !.pc = "shrinkEntities",
                                          !.filtered = filteredEntities.v,
                                          !.work = filteredEntities.v,
                                          !.truncated = FALSE])
    /\ UNCHANGED sectionsIncluded
    /\ UNCHANGED <<probe, store>>

\* one turn of the while loop of lines 519-526, or its exit and the return
ShrinkEntities(c) ==
    /\ running = c
    /\ calls[c].pc = "shrinkEntities"
    /\ LET f == calls[c]
           testResponse == GraphOf(JArr(f.work), JArr(<<>>))
       IN
       IF Len(f.work) > 0 /\ ~fitsInBudget(f.budget, testResponse)
       THEN Continue(c, [f EXCEPT !.work = Slice(@, ShrunkLength(Len(@))),
                                  !.truncated = TRUE])
       ELSE Settle(c, f, Fulfilled(
                Response(testResponse,
                         estimateTokensWithFormatting(testResponse),
                         f.budget.total, f.truncated,
                         IF f.truncated
                         THEN ReducedReason(Len(f.filtered), Len(f.work), "entities")
                         ELSE JUndef,
                         0, <<"entities">>)))
    /\ UNCHANGED sectionsIncluded
    /\ UNCHANGED <<probe, store>>

\* buildRelationshipsStreamingResponse up to the first fit check, lines 549-561
RelationshipsStart(c) ==
    /\ running = c
    /\ calls[c].pc = "relationships"
    /\ LET f == calls[c]
           relationsResponse == GraphOf(JArr(<<>>), f.relations)
       IN IF fitsInBudgetThrows(f.budget, relationsResponse)
          THEN Settle(c, f, Rejected(TypeError))
          ELSE
          IF fitsInBudget(f.budget, relationsResponse)
          THEN Settle(c, f, Fulfilled(
                   Response(relationsResponse,
                            estimateTokensWithFormatting(relationsResponse),
                            f.budget.total, FALSE, JUndef, 0, <<"relations">>)))
          ELSE Continue(c, [f EXCEPT !.pc = "shrinkRelations",
                                     !.filtered = f.relations.v,
                                     !.work = f.relations.v,
                                     !.truncated = FALSE])
    /\ UNCHANGED sectionsIncluded
    /\ UNCHANGED <<probe, store>>

\* one turn of the while loop of lines 567-574, or its exit and the return
ShrinkRelations(c) ==
    /\ running = c
    /\ calls[c].pc = "shrinkRelations"
    /\ LET f == calls[c]
           testResponse == GraphOf(JArr(<<>>), JArr(f.work))
       IN
       IF Len(f.work) > 0 /\ ~fitsInBudget(f.budget, testResponse)
       THEN Continue(c, [f EXCEPT !.work = Slice(@, ShrunkLength(Len(@))),
                                  !.truncated = TRUE])
       ELSE Settle(c, f, Fulfilled(
                Response(testResponse,
                         estimateTokensWithFormatting(testResponse),
                         f.budget.total, f.truncated,
                         IF f.truncated
                         THEN ReducedReason(Len(f.filtered), Len(f.work), "relations")
                         ELSE JUndef,
                         0, <<"relations">>)))
    /\ UNCHANGED sectionsIncluded
    /\ UNCHANGED <<probe, store>>

RawTooLarge ==
    JStr(S("Raw response too large - use smart, entities, or relationships mode with limits"))

\* buildRawStreamingResponse, lines 592-623
RawBuild(c) ==
    /\ running = c
    /\ calls[c].pc = "raw"
    /\ LET f == calls[c]
           rawResponse == GraphOf(f.entities, f.relations)
       IN IF fitsInBudgetThrows(f.budget, rawResponse)
          THEN Settle(c, f, Rejected(TypeError))
          ELSE
          IF fitsInBudget(f.budget, rawResponse)
          THEN Settle(c, f, Fulfilled(
                   Response(rawResponse,
                            estimateTokensWithFormatting(rawResponse),
                            f.budget.total, FALSE, JUndef,
                            0, <<"entities", "relations">>)))
          ELSE Settle(c, f, Fulfilled(
                   Response(EmptyGraph, 0, f.budget.total, TRUE, RawTooLarge,
                            0, <<>>)))
    /\ UNCHANGED sectionsIncluded
    /\ UNCHANGED <<probe, store>>

----------------------------------------------------------------------------
(* Specifications *)

Step(c) ==
    \/ \E now \in Times : SectionSummary(c, now)
    \/ SectionStructure(c)
    \/ SectionApiSurface(c)
    \/ SectionDependencies(c)
    \/ SectionRelations(c)
    \/ EntitiesStart(c)
    \/ ShrinkEntities(c)
    \/ RelationshipsStart(c)
    \/ ShrinkRelations(c)
    \/ RawBuild(c)
    \/ Resume(c)

\* a caller calls buildStreamingResponse
Call(c) ==
    /\ running = 0
    /\ calls[c].pc = "idle"
    /\ \/ \E in \in SmartInputs : Invoke(c, in)
       \/ \E in \in EntitiesInputs : Invoke(c, in)
       \/ \E in \in RelationshipsInputs : Invoke(c, in)
       \/ \E in \in RawInputs : Invoke(c, in)
       \/ \E in \in UnknownModeInputs : Invoke(c, in)
       \/ \E in \in ReserveInputs : Invoke(c, in)
       \/ \E in \in CapInputs : Invoke(c, in)

\* one caller
Next == Call(1) \/ Step(1)

Spec == Init /\ [][Next]_vars

\* several callers, a few inputs each
ConcInputs ==
    [entities : {JArr(<<eFoo, eBar>>), JArr(<<eDeepX, eDeepY>>), JNull},
     relations : {JArr(<<rCalls>>)},
     options : {Options(JUndef, JUndef, JUndef),
                Options(Mode("entities"), JNum(1), JUndef),
                Options(Mode("raw"), JUndef, JUndef)}]
    \cup {[entities |-> JArr(MixedLong), relations |-> JArr(<<rCalls>>),
           options |-> Options(Mode("entities"), JUndef, JUndef)],
          [entities |-> JArr(<<eFoo>>),
           relations |-> JArr(<<rImportsLong, rImportsLong>>),
           options |-> Options(Mode("relationships"), JUndef, JUndef)]}

CallConc(c) ==
    /\ running = 0
    /\ calls[c].pc = "idle"
    /\ \E in \in ConcInputs : Invoke(c, in)

NextConc == \E c \in CallIds : CallConc(c) \/ Step(c)

SpecConc == Init /\ [][NextConc]_vars

----------------------------------------------------------------------------
(* The tokenCounter singleton used directly, as the unit tests do *)

MaxLimit == 3
MaxConsumes == 2

sShort == JStr(S("abc"))
sMid   == JStr(<<<<"m", 100>>>>)
sLong  == JStr(<<<<"x", 600>>>>)
\* a content like that of the test 'Content truncation functionality': a
\* long description, arrays of shorter strings, and fields of other kinds
oMixed ==
    JObj(<< <<S("description"), sLong>>,
            <<S("observations"), JArr(<<sMid, sMid, sMid>>)>>,
            <<S("methods"), JArr(<<sShort, sShort>>)>>,
            <<S("name"), sShort>>,
            <<S("line"), JNum(11)>>,
            <<S("file"), JObj(<< <<S("type"), JStr(S("file"))>> >>)>> >>)
\* an array field whose first item is its largest
oBigFirst ==
    JObj(<< <<S("observations"), JArr(<<sLong, sShort>>)>>,
            <<S("name"), sShort>> >>)
\* the object of the test 'Circular reference handling'
oCircular == JObj(<< <<S("name"), JStr(S("test"))>>, <<S("self"), JCyclic>> >>)

ProbeContents ==
    {sShort, sMid, sLong, oMixed, oBigFirst, oCircular, JNull, JUndef,
     JArr(<<>>), JArr(<<sShort>>), JArr(<<sMid, sMid, sMid>>),
     JArr(<<sLong, sShort>>), JArr(<<sShort, sLong, sShort>>)}

\* totalLimit: the smallest ones, those of the tests, and the builder's
ProbeLimits == (0..MaxLimit) \cup {25, 50, 100, 1000, DEFAULT_TOKEN_LIMIT, 1000000}

ProbeTokens == {1, 30, 300}

InitProbe ==
    /\ calls = [c \in CallIds |-> IdleFrame]
    /\ running = 0
    /\ sectionsIncluded = [c \in CallIds |-> <<>>]
    /\ probe \in {[NoProbe EXCEPT !.content = x] : x \in ProbeContents}
    /\ StoreIdle

\* tokenCounter.estimateTokens(content)
ProbeEstimateTokens ==
    /\ probe.op = "none"
    /\ probe' = IF estimateTokensThrows(probe.content)
                THEN [probe EXCEPT !.op = "estimated", !.threw = TRUE]
                ELSE [probe EXCEPT !.op = "estimated",
                                   !.tokens = estimateTokensOf(probe.content)]
    /\ UNCHANGED <<calls, running, sectionsIncluded, store>>

\* budget = tokenCounter.createBudget(totalLimit)
ProbeCreateBudget ==
    /\ probe.op = "none"
    /\ \E totalLimit \in ProbeLimits :
          probe' = [probe EXCEPT !.op = "budget", !.limit = totalLimit,
                                 !.budget = createBudget(totalLimit),
                                 !.before = createBudget(totalLimit)]
    /\ UNCHANGED <<calls, running, sectionsIncluded, store>>

\* updated = tokenCounter.consumeTokens(budget, tokens); `before` keeps the
\* budget that was passed in
ProbeConsumeTokens ==
    /\ probe.op = "budget"
    /\ probe.consumed < MaxConsumes
    /\ \E tokens \in ProbeTokens :
          probe' = [probe EXCEPT !.budget = consumeTokens(probe.budget, tokens),
                                 !.before = probe.budget,
                                 !.tokens = tokens,
                                 !.consumed = @ + 1]
    /\ UNCHANGED <<calls, running, sectionsIncluded, store>>

\* out = tokenCounter.truncateToFit(content, budget)
ProbeTruncateToFit ==
    /\ probe.op = "budget"
    /\ probe' = IF estimateTokensWithFormattingThrows(probe.content)
                THEN [probe EXCEPT !.op = "truncated", !.threw = TRUE]
                ELSE [probe EXCEPT !.op = "truncated",
                          !.out = truncateToFit(probe.content, probe.budget)]
    /\ UNCHANGED <<calls, running, sectionsIncluded, store>>

\* again = tokenCounter.truncateToFit(out.content, budget)
ProbeTruncateAgain ==
    /\ probe.op = "truncated"
    /\ ~probe.threw
    /\ probe' = [probe EXCEPT !.op = "twice",
                    !.again = truncateToFit(probe.out.content, probe.budget)]
    /\ UNCHANGED <<calls, running, sectionsIncluded, store>>

\* out = truncateArray(content, budget.remaining), for an array content
ProbeTruncateArray ==
    /\ probe.op = "budget"
    /\ IsArr(probe.content)
    /\ probe' = [probe EXCEPT !.op = "array",
                    !.out = LET r == truncateArray(probe.content.v,
                                                   probe.budget.remaining, 1)
                            IN Truncation(JArr(r.content), r.truncated)]
    /\ UNCHANGED <<calls, running, sectionsIncluded, store>>

NextProbe ==
    \/ ProbeEstimateTokens
    \/ ProbeCreateBudget
    \/ ProbeConsumeTokens
    \/ ProbeTruncateToFit
    \/ ProbeTruncateAgain
    \/ ProbeTruncateArray

SpecProbe == InitProbe /\ [][NextProbe]_vars

----------------------------------------------------------------------------
(* Graphs holding an object that refers to itself *)

\* an entity with one more field, `e.self = e`
eCircular == JObj(eFoo.v \o << <<S("self"), JCyclic>> >>)

\* a relation whose `from` is the object of the test 'Circular reference
\* handling'
rCircular ==
    JObj(<< <<S("from"), oCircular>>,
            <<S("to"), JStr(S("Foo"))>>,
            <<S("relationType"), JStr(S("inherits"))>> >>)

CyclicInputs ==
    [entities : {JArr(<<eFoo, eBar>>), JArr(<<eFoo, eCircular>>), JArr(MixedLong)},
     relations : {JArr(<<rCalls>>), JArr(<<rCalls, rCircular>>),
                  JArr(<<rImportsLong, rImportsLong>>)},
     options : {Options(JUndef, JUndef, JUndef),
                Options(Mode("entities"), JUndef, JUndef),
                Options(Mode("relationships"), JUndef, JUndef),
                Options(Mode("raw"), JUndef, JUndef)}]

CallCyclic(c) ==
    /\ running = 0
    /\ calls[c].pc = "idle"
    /\ \E in \in CyclicInputs : Invoke(c, in)

NextCyclic == CallCyclic(1) \/ Step(1)

SpecCyclic == Init /\ [][NextCyclic]_vars

----------------------------------------------------------------------------
(* The shrinking loops of entities and relationships mode, run to their end *)

\* a relation that no budget holds
rBothLong == Relation(<<<<"n", LongText>>>>, <<<<"p", LongText>>>>, "imports")

MaxShrinkLen == 6

ShrinkInputs ==
    {[entities |-> JArr([i \in 1..k |-> eLongName]), relations |-> JArr(<<>>),
      options |-> Options(Mode("entities"), JUndef, JUndef)] : k \in 1..MaxShrinkLen}
    \cup
    {[entities |-> JArr(MixedLong), relations |-> JArr(<<>>),
      options |-> Options(Mode("entities"), JUndef, JUndef)]}
    \cup
    {[entities |-> JArr(<<>>), relations |-> JArr([i \in 1..k |-> r]),
      options |-> Options(Mode("relationships"), JUndef, JUndef)] :
         k \in 1..MaxShrinkLen, r \in {rImportsLong, rBothLong}}
    \cup
    {[entities |-> JArr(<<>>), relations |-> JArr(<<rBothLong, rCalls>>),
      options |-> Options(Mode("relationships"), JUndef, JUndef)]}

CallShrink(c) ==
    /\ running = 0
    /\ calls[c].pc = "idle"
    /\ \E in \in ShrinkInputs : Invoke(c, in)

StepShrink(c) ==
    \/ EntitiesStart(c)
    \/ ShrinkEntities(c)
    \/ RelationshipsStart(c)
    \/ ShrinkRelations(c)
    \/ Resume(c)

NextShrink == CallShrink(1) \/ StepShrink(1)

\* a call that can take a step takes it: the loop is synchronous code and
\* the continuation after `await` is a queued microtask
SpecShrink ==
    /\ Init /\ [][NextShrink]_vars
    /\ WF_vars(EntitiesStart(1)) /\ WF_vars(ShrinkEntities(1))
    /\ WF_vars(RelationshipsStart(1)) /\ WF_vars(ShrinkRelations(1))
    /\ WF_vars(Resume(1))

----------------------------------------------------------------------------
(* QdrantPersistence.connect *)

CONNECT_RETRIES == 3
CONNECT_DELAY == 2000
ConnectFailed == "Failed to connect to Qdrant after multiple attempts"

\* connect(), a whole call: the test of initialized, the request
\* client.getCollections() and its answer (ok: whether it resolved), the
\* timer of the catch block.  requests counts the requests sent and timers
\* lists the delays handed to setTimeout.
connectFlat(k, ok) ==
    LET f == ops[k] IN
    /\ f.name \in {"", "connect"}
    /\ \/ /\ f.pc = "idle" /\ NextFrame(k)
          /\ ops' = [ops EXCEPT ![k] =
                IF qdrant.initialized
                THEN [f EXCEPT !.name = "connect", !.pc = "returned",
                               !.sawInitialized = TRUE]
                ELSE [f EXCEPT !.name = "connect", !.pc = "try",
                               !.retries = CONNECT_RETRIES,
                               !.delay = CONNECT_DELAY]]
          /\ UNCHANGED qdrant
       \/ /\ f.pc = "try"
          /\ ops' = [ops EXCEPT ![k] =
                [f EXCEPT !.pc = "inflight", !.requests = @ + 1]]
          /\ UNCHANGED qdrant
       \/ /\ f.pc = "inflight" /\ ok
          /\ qdrant' = [qdrant EXCEPT !.initialized = TRUE]
          /\ ops' = [ops EXCEPT ![k] =
                [f EXCEPT !.pc = "returned"]]
       \/ /\ f.pc = "inflight" /\ ~ok
          /\ ops' = [ops EXCEPT ![k] =
                IF f.retries - 1 = 0
                THEN [f EXCEPT !.retries = 0, !.pc = "thrown",
                               !.error = ConnectFailed]
                ELSE [f EXCEPT !.retries = @ - 1, !.pc = "waiting",
                               !.timers = Append(@, f.delay)]]
          /\ UNCHANGED qdrant
       \/ /\ f.pc = "waiting"
          /\ ops' = [ops EXCEPT ![k] = [f EXCEPT !.pc = "try"]]
          /\ UNCHANGED qdrant
    /\ UNCHANGED builder

connect(k, ok) ==
    LET f == ops[k] IN
    /\ f.name \in {"", "connect"}
    /\ \/ /\ f.pc = "idle" /\ NextFrame(k)
          /\ ops' = [ops EXCEPT ![k] =
                IF qdrant.initialized
                THEN [f EXCEPT !.name = "connect", !.pc = "returned",
                               !.sawInitialized = TRUE]
                ELSE [f EXCEPT !.name = "connect", !.pc = "try",
                               !.retries = CONNECT_RETRIES,
                               !.delay = CONNECT_DELAY]]
          /\ UNCHANGED qdrant
       \/ /\ f.pc = "try"
          /\ ops' = [ops EXCEPT ![k] =
                [f EXCEPT !.pc = "inflight", !.requests = @ + 1]]
          /\ UNCHANGED qdrant
       \/ /\ f.pc = "inflight" /\ ok
          /\ qdrant' = [qdrant EXCEPT !.initialized = TRUE]
          /\ ops' = [ops EXCEPT ![k] =
                [f EXCEPT !.pc = "returned"]]
       \/ /\ f.pc = "inflight" /\ ~ok
          /\ ops' = [ops EXCEPT ![k] =
                IF f.retries - 1 = 0
                THEN [f EXCEPT !.retries = 0, !.pc = "thrown",
                               !.error = ConnectFailed]
                ELSE [f EXCEPT !.retries = @ - 1, !.pc = "waiting",
                               !.timers = Append(@, f.delay)]]
          /\ UNCHANGED qdrant
       \/ /\ f.pc = "waiting"
          /\ ops' = [ops EXCEPT ![k] =
                [f EXCEPT !.pc = "try", !.delay = @ * 2]]
          /\ UNCHANGED qdrant
    /\ UNCHANGED builder

NextConnect == \E k \in OpIds, ok \in BOOLEAN : connect(k, ok)

SpecConnect == Init /\ [][NextConnect]_vars

----------------------------------------------------------------------------
(* The collection and the KnowledgeGraphManager methods *)

\* Entities and relations as the manager's methods take them.  An entity is
\* its name: nothing modelled here reads its type or its observations.
Names == {"A", "B", "C"}
RelationOf(from, relationType, to) ==
    [from |-> from, to |-> to, relationType |-> relationType]
rAB == RelationOf("A", "calls", "B")
rAC == RelationOf("A", "calls", "C")
rBA == RelationOf("B", "uses", "A")
rCB == RelationOf("C", "uses", "B")

NameRank(n) == CASE n = "A" -> 1 [] n = "B" -> 2 [] n = "C" -> 3
TypeRank(t) == CASE t = "calls" -> 1 [] t = "uses" -> 2

\* hashString: the point id of an id string.  The collection scrolls in the
\* order of the ids; the ids taken here put the named entities first, the
\* entities the collection already held next and the relations last.
RelationIds == 1000
hashString(idStr) ==
    IF idStr[1] = "manual"
    THEN NameRank(idStr[2])
    ELSE RelationIds + 100 * NameRank(idStr[2]) + 10 * TypeRank(idStr[3])
                     + NameRank(idStr[4])

\* the payloads persistEntity and persistRelation write
MetadataChunk(name) ==
    [id |-> hashString(<<"manual", name>>), chunk_type |-> "metadata",
     entity_name |-> name, from |-> "", to |-> "", relation_type |-> ""]
RelationChunk(r) ==
    [id |-> hashString(<<"relation", r.from, r.relationType, r.to>>),
     chunk_type |-> "relation",
     entity_name |-> r.from \o "-" \o r.relationType \o "-" \o r.to,
     from |-> r.from, to |-> r.to, relation_type |-> r.relationType]

\* client.upsert of one point, client.delete by entity_name, client.delete
\* of one point id
Upsert(points, chunk) == {p \in points : p.id # chunk.id} \cup {chunk}
deleteEntity(points, entityName) ==
    {p \in points : p.entity_name # entityName}
deleteRelation(points, r) ==
    {p \in points : p.id # RelationChunk(r).id}

\* an entity indexed before the calls modelled here
NumIndexed == 98
IndexedChunk(n) ==
    [id |-> NameRank("C") + n, chunk_type |-> "metadata",
     entity_name |-> ToString(n), from |-> "", to |-> "",
     relation_type |-> ""]
Created == {MetadataChunk("A"), MetadataChunk("B")}

\* the collection: the points the calls modelled here can write or delete,
\* and the entities an indexer wrote, kept by their number
Collection(q) == q.points \cup {IndexedChunk(n) : n \in 1..q.indexed}

\* points in the order of their ids
ById(points) ==
    [n \in 1..Cardinality(points) |->
        CHOOSE p \in points : Cardinality({q \in points : q.id < p.id}) = n - 1]

\* the collection in the order client.scroll returns it, the order of the
\* ids: the ids of the indexed entities lie between those of the named
\* entities and those of the relations
InScrollOrder(q) ==
    LET low == {p \in q.points : p.id <= NameRank("C")} IN
    ById(low) \o [n \in 1..q.indexed |-> IndexedChunk(n)]
              \o ById(q.points \ low)

BATCH_SIZE == 100
DEFAULT_LIMIT == 100

\* _getRawData(limit) with no entityTypes, from the page that begins at the
\* first-th point on: one turn of the do-while per page.  sorted is the
\* collection in scroll order, entities and relations what the earlier pages
\* gave.
RECURSIVE _getRawData(_, _, _, _, _)
_getRawData(sorted, first, entities, relations, maxEntities) ==
    LET last == IF first + BATCH_SIZE - 1 < Len(sorted)
                THEN first + BATCH_SIZE - 1 ELSE Len(sorted)
        page == SubSeq(sorted, first, last)
        metadata == SelectSeq(page, LAMBDA p : p.chunk_type = "metadata")
        room == maxEntities - Len(entities)
        taken == IF Len(metadata) <= room THEN metadata
                 ELSE SubSeq(metadata, 1, room)
        stored == SelectSeq(page, LAMBDA p : p.chunk_type = "relation")
        entities2 == entities \o [n \in 1..Len(taken) |-> taken[n].entity_name]
        relations2 == relations \o
            [n \in 1..Len(stored) |->
                RelationOf(stored[n].from, stored[n].relation_type,
                           stored[n].to)]
        nextPage == last < Len(sorted)
    IN  IF Len(entities2) >= maxEntities \/ ~nextPage
        THEN [entities |-> entities2, relations |-> relations2]
        ELSE _getRawData(sorted, last + 1, entities2, relations2,
                         maxEntities)

\* getRawGraph(): scrollAll({mode: 'raw'}), whose limit is the default
getRawGraph(q) ==
    _getRawData(InScrollOrder(q), 1, <<>>, <<>>, DEFAULT_LIMIT)

InGraph(graph, name) == \E n \in 1..Len(graph.entities) : graph.entities[n] = name

EntityNotFound(name) == "Entity not found: " \o name

\* addEntities(entities), a whole call: one persistEntity per step
addEntities(k, entities) ==
    LET f == ops[k] IN
    /\ qdrant.initialized
    /\ f.name \in {"", "create_entities"}
    /\ \/ /\ f.pc = "idle" /\ NextFrame(k)
          /\ ops' = [ops EXCEPT ![k] =
                [f EXCEPT !.name = "create_entities", !.args = entities,
                          !.pc = "loop", !.i = 1]]
          /\ UNCHANGED qdrant
       \/ /\ f.pc = "loop" /\ f.i <= Len(f.args)
          /\ qdrant' = [qdrant EXCEPT
                !.points = Upsert(@, MetadataChunk(f.args[f.i]))]
          /\ ops' = [ops EXCEPT ![k] = [f EXCEPT !.i = @ + 1]]
       \/ /\ f.pc = "loop" /\ f.i > Len(f.args)
          /\ ops' = [ops EXCEPT ![k] =
                [f EXCEPT !.pc = "done", !.readBefore = Snapped]]
          /\ UNCHANGED qdrant
    /\ UNCHANGED builder

\* addRelations that validates every relation before it persists the first
addRelationsAllOrNothing(k, relations) ==
    LET f == ops[k]
        missing(r) == ~InGraph(f.snapshot, r.from) \/ ~InGraph(f.snapshot, r.to)
    IN
    /\ qdrant.initialized
    /\ f.name \in {"", "create_relations"}
    /\ \/ /\ f.pc = "idle" /\ NextFrame(k)
          /\ ops' = [ops EXCEPT ![k] =
                [f EXCEPT !.name = "create_relations", !.args = relations,
                          !.snapshot = getRawGraph(qdrant),
                          !.snapped = TRUE, !.pc = "loop", !.i = 1]]
          /\ UNCHANGED qdrant
       \/ /\ f.pc = "loop" /\ f.i <= Len(f.args)
          /\ LET r == f.args[f.i]
                 bad == {n \in 1..Len(f.args) : missing(f.args[n])}
                 k1 == CHOOSE n \in bad : \A m \in bad : n <= m
             IN  IF bad # {}
                 THEN /\ ops' = [ops EXCEPT ![k] =
                            [f EXCEPT !.pc = "failed", !.i = k1,
                                      !.error = EntityNotFound(
                                          IF ~InGraph(f.snapshot, f.args[k1].from)
                                          THEN f.args[k1].from
                                          ELSE f.args[k1].to),
                                      !.readBefore = Snapped]]
                      /\ UNCHANGED qdrant
                 ELSE /\ qdrant' = [qdrant EXCEPT
                            !.points = Upsert(@, RelationChunk(r))]
                      /\ ops' = [ops EXCEPT ![k] =
                            [f EXCEPT !.i = @ + 1,
                                      !.upserts = Append(@,
                                          [relation |-> r, returned |-> Returned,
                                       snapped |-> Snapped])]]
       \/ /\ f.pc = "loop" /\ f.i > Len(f.args)
          /\ ops' = [ops EXCEPT ![k] =
                [f EXCEPT !.pc = "done", !.readBefore = Snapped]]
          /\ UNCHANGED qdrant
    /\ UNCHANGED builder

\* addRelations(relations), a whole call: getRawGraph() once, then per step
\* the two checks of one relation against currentGraph and its
\* persistRelation.  upserts lists the relations the call has persisted,
\* each with the calls that had returned and the calls that had read their
\* graph when it was persisted.
addRelations(k, relations) ==
    LET f == ops[k] IN
    /\ qdrant.initialized
    /\ f.name \in {"", "create_relations"}
    /\ \/ /\ f.pc = "idle" /\ NextFrame(k)
          /\ ops' = [ops EXCEPT ![k] =
                [f EXCEPT !.name = "create_relations", !.args = relations,
                          !.snapshot = getRawGraph(qdrant),
                          !.snapped = TRUE, !.pc = "loop", !.i = 1]]
          /\ UNCHANGED qdrant
       \/ /\ f.pc = "loop" /\ f.i <= Len(f.args)
          /\ LET r == f.args[f.i] IN
             IF ~InGraph(f.snapshot, r.from) \/ ~InGraph(f.snapshot, r.to)
             THEN /\ ops' = [ops EXCEPT ![k] =
                        [f EXCEPT !.pc = "failed",
                                  !.error = EntityNotFound(
                                      IF ~InGraph(f.snapshot, r.from)
                                      THEN r.from ELSE r.to),
                                  !.readBefore = Snapped]]
                  /\ UNCHANGED qdrant
             ELSE /\ qdrant' = [qdrant EXCEPT
                        !.points = Upsert(@, RelationChunk(r))]
                  /\ ops' = [ops EXCEPT ![k] =
                        [f EXCEPT !.i = @ + 1,
                                  !.upserts = Append(@,
                                      [relation |-> r, returned |-> Returned,
                                       snapped |-> Snapped])]]
       \/ /\ f.pc = "loop" /\ f.i > Len(f.args)
          /\ ops' = [ops EXCEPT ![k] =
                [f EXCEPT !.pc = "done", !.readBefore = Snapped]]
          /\ UNCHANGED qdrant
    /\ UNCHANGED builder

\* the relations of a graph that involve an entity
RelatedRelations(graph, name) ==
    SelectSeq(graph.relations, LAMBDA r : r.from = name \/ r.to = name)

\* deleteEntities that reads the relations of an entity from the collection
\* as it is when the entity is deleted
deleteEntitiesFresh(k, entityNames) ==
    LET f == ops[k] IN
    /\ qdrant.initialized
    /\ f.name \in {"", "delete_entities"}
    /\ \/ /\ f.pc = "idle" /\ NextFrame(k)
          /\ ops' = [ops EXCEPT ![k] =
                [f EXCEPT !.name = "delete_entities", !.args = entityNames,
                          !.snapshot = getRawGraph(qdrant),
                          !.snapped = TRUE, !.pc = "loop", !.i = 1]]
          /\ UNCHANGED qdrant
       \/ /\ f.pc = "loop" /\ f.i <= Len(f.args)
          /\ qdrant' = [qdrant EXCEPT
                !.points = deleteEntity(@, f.args[f.i])]
          /\ LET related == RelatedRelations(getRawGraph(qdrant),
                                            f.args[f.i]) IN
             ops' = [ops EXCEPT ![k] =
                IF related = <<>>
                THEN [f EXCEPT !.i = @ + 1]
                ELSE [f EXCEPT !.related = related, !.j = 1,
                               !.pc = "cascade"]]
       \/ /\ f.pc = "cascade"
          /\ qdrant' = [qdrant EXCEPT
                !.points = deleteRelation(@, f.related[f.j])]
          /\ ops' = [ops EXCEPT ![k] =
                IF f.j = Len(f.related)
                THEN [f EXCEPT !.deletes = Append(@, f.related[f.j]),
                               !.pc = "loop", !.i = @ + 1]
                ELSE [f EXCEPT !.deletes = Append(@, f.related[f.j]),
                               !.j = @ + 1]]
       \/ /\ f.pc = "loop" /\ f.i > Len(f.args)
          /\ ops' = [ops EXCEPT ![k] =
                [f EXCEPT !.pc = "done", !.readBefore = Snapped]]
          /\ UNCHANGED qdrant
    /\ UNCHANGED builder

\* deleteEntities(entityNames), a whole call: getRawGraph() once, then per
\* name its deleteEntity and one deleteRelation per step for the relations
\* of currentGraph that involve it.  deletes lists the relations the
\* cascade has deleted.
deleteEntities(k, entityNames) ==
    LET f == ops[k] IN
    /\ qdrant.initialized
    /\ f.name \in {"", "delete_entities"}
    /\ \/ /\ f.pc = "idle" /\ NextFrame(k)
          /\ ops' = [ops EXCEPT ![k] =
                [f EXCEPT !.name = "delete_entities", !.args = entityNames,
                          !.snapshot = getRawGraph(qdrant),
                          !.snapped = TRUE, !.pc = "loop", !.i = 1]]
          /\ UNCHANGED qdrant
       \/ /\ f.pc = "loop" /\ f.i <= Len(f.args)
          /\ qdrant' = [qdrant EXCEPT
                !.points = deleteEntity(@, f.args[f.i])]
          /\ LET related == RelatedRelations(f.snapshot, f.args[f.i]) IN
             ops' = [ops EXCEPT ![k] =
                IF related = <<>>
                THEN [f EXCEPT !.i = @ + 1]
                ELSE [f EXCEPT !.related = related, !.j = 1,
                               !.pc = "cascade"]]
       \/ /\ f.pc = "cascade"
          /\ qdrant' = [qdrant EXCEPT
                !.points = deleteRelation(@, f.related[f.j])]
          /\ ops' = [ops EXCEPT ![k] =
                IF f.j = Len(f.related)
                THEN [f EXCEPT !.deletes = Append(@, f.related[f.j]),
                               !.pc = "loop", !.i = @ + 1]
                ELSE [f EXCEPT !.deletes = Append(@, f.related[f.j]),
                               !.j = @ + 1]]
       \/ /\ f.pc = "loop" /\ f.i > Len(f.args)
          /\ ops' = [ops EXCEPT ![k] =
                [f EXCEPT !.pc = "done", !.readBefore = Snapped]]
          /\ UNCHANGED qdrant
    /\ UNCHANGED builder

\* deleteRelations(relations), a whole call: one deleteRelation per step
deleteRelations(k, relations) ==
    LET f == ops[k] IN
    /\ qdrant.initialized
    /\ f.name \in {"", "delete_relations"}
    /\ \/ /\ f.pc = "idle" /\ NextFrame(k)
          /\ ops' = [ops EXCEPT ![k] =
                [f EXCEPT !.name = "delete_relations", !.args = relations,
                          !.pc = "loop", !.i = 1]]
          /\ UNCHANGED qdrant
       \/ /\ f.pc = "loop" /\ f.i <= Len(f.args)
          /\ qdrant' = [qdrant EXCEPT
                !.points = deleteRelation(@, f.args[f.i])]
          /\ ops' = [ops EXCEPT ![k] = [f EXCEPT !.i = @ + 1]]
       \/ /\ f.pc = "loop" /\ f.i > Len(f.args)
          /\ ops' = [ops EXCEPT ![k] =
                [f EXCEPT !.pc = "done", !.readBefore = Snapped]]
          /\ UNCHANGED qdrant
    /\ UNCHANGED builder

\* the requests modelled
EntityLists == {<<"A", "B">>, <<"C">>}
RelationLists == {<<rAB>>, <<rAB, rAC, rBA>>, <<rCB>>}
NameLists == {<<"A">>, <<"B", "C">>}
RelationDeletions == {<<rAB>>}

Finished(k) == ops[k].pc \in {"idle", "done", "failed"}

\* the server answers requests once initialize() has connected; the
\* collection is empty, or holds two entities created earlier, or these and
\* what an indexer wrote
InitGraph ==
    /\ calls = [c \in CallIds |-> IdleFrame]
    /\ running = 0
    /\ sectionsIncluded = [c \in CallIds |-> <<>>]
    /\ probe = NoProbe
    /\ qdrant \in {[initialized |-> TRUE, points |-> {}, indexed |-> 0],
                   [initialized |-> TRUE, points |-> Created, indexed |-> 0],
                   [initialized |-> TRUE, points |-> Created,
                    indexed |-> NumIndexed]}
    /\ ops = [k \in OpIds |-> IdleOp]

\* requests handled while others are between two awaits
NextGraph ==
    \E k \in OpIds :
        \/ \E a \in EntityLists : addEntities(k, a)
        \/ \E a \in RelationLists : addRelations(k, a)
        \/ \E a \in NameLists : deleteEntities(k, a)
        \/ \E a \in RelationDeletions : deleteRelations(k, a)

SpecGraph == InitGraph /\ [][NextGraph]_vars

\* requests handled one after the other
NextSeq ==
    \E k \in OpIds :
        /\ \A o \in OpIds \ {k} : Finished(o)
        /\ \/ \E a \in EntityLists : addEntities(k, a)
           \/ \E a \in RelationLists : addRelations(k, a)
           \/ \E a \in NameLists : deleteEntities(k, a)
           \/ \E a \in RelationDeletions : deleteRelations(k, a)

SpecSeq == InitGraph /\ [][NextSeq]_vars

----------------------------------------------------------------------------
(* What a caller sees *)

Done(c) == calls[c].pc = "done"

ModeIs(c, m) == calls[c].pc # "idle" /\ ModeOf(calls[c].options) = S(m)

\* response.meta.sectionsIncluded, read now
SectionsOf(resp) ==
    IF resp.meta.ref > 0 THEN sectionsIncluded[resp.meta.ref] ELSE resp.meta.lit

InSeq(x, q) == \E i \in 1..Len(q) : q[i] = x

\* the inner builder raised an error, or the mode was unknown
Failed(c) ==
    \/ calls[c].pending.status = "rejected"
    \/ ModeOf(calls[c].options) \notin KnownModes

\* createBudget(DEFAULT_TOKEN_LIMIT).total, the budget every call starts with
TOKEN_BUDGET == (DEFAULT_TOKEN_LIMIT * 96) \div 100

FitsWhole(x) == CeilDiv(PrettyLen(x, 0), 4) <= TOKEN_BUDGET

IsPrefix(p, q) == Len(p) <= Len(q) /\ p = SubSeq(q, 1, Len(p))

----------------------------------------------------------------------------
(* Claims *)

\* C1: in every mode the response has meta.tokenCount <= meta.tokenLimit.
C1_TokenCountWithinLimit ==
    \A c \in CallIds :
        Done(c) => calls[c].result.meta.tokenCount <= calls[c].result.meta.tokenLimit

C4_RawAllOrNothing ==
    \A c \in CallIds :
        (Done(c) /\ ModeIs(c, "raw")) =>
            LET r == calls[c].result
                whole == GraphOf(calls[c].entities, calls[c].relations)
            IN IF FitsWhole(whole)
               THEN r.content = whole /\ ~r.meta.truncated
               ELSE /\ r.content = EmptyGraph
                    /\ r.meta.truncated
                    /\ r.meta.tokenCount = 0
                    /\ r.meta.truncationReason = RawTooLarge

C4_Witness ==
    \E c \in CallIds :
        /\ Done(c) /\ ModeIs(c, "raw")
        /\ IsArr(calls[c].entities) /\ Len(calls[c].entities.v) > 0
        /\ calls[c].result.content = EmptyGraph
        /\ calls[c].result.meta.truncated

\* C5: in entities mode with a non-empty entityTypes, every entity of the
\* response has an entityType that is in entityTypes.
C5_OnlyRequestedTypes ==
    \A c \in CallIds :
        (/\ Done(c) /\ ModeIs(c, "entities")
         /\ IsArr(Get(calls[c].options, "entityTypes"))
         /\ Len(Get(calls[c].options, "entityTypes").v) > 0) =>
            LET out == Get(calls[c].result.content, "entities")
                et  == Get(calls[c].options, "entityTypes").v
            IN /\ IsArr(out)
               /\ \A i \in 1..Len(out.v) : InSeq(Get(out.v[i], "entityType"), et)

\* an entity of another type was filtered out and the rest was shrunk
C5_Witness ==
    \E c \in CallIds :
        /\ Done(c) /\ ModeIs(c, "entities")
        /\ IsArr(Get(calls[c].options, "entityTypes"))
        /\ IsArr(calls[c].entities)
        /\ \E i \in 1..Len(calls[c].entities.v) :
              Get(calls[c].entities.v[i], "entityType") # JStr(S("class"))
        /\ calls[c].result.meta.truncated
        /\ Len(Get(calls[c].result.content, "entities").v) > 0

\* C6: in entities mode the response holds at most limit entities, limit
\* being 50 when the caller passes none.
C6_AtMostLimitEntities ==
    \A c \in CallIds :
        (Done(c) /\ ModeIs(c, "entities")
         /\ IsArr(Get(calls[c].result.content, "entities"))) =>
            Len(Get(calls[c].result.content, "entities").v)
                <= LimitOf(calls[c].options)

\* C7: relationships mode returns no entities; a relation list that fits is
\* returned whole and untruncated, one of N relations that does not fit is
\* cut to a prefix of M < N relations with truncated and the reason
\* 'Reduced from N to M relations'.
C7_RelationshipsPrefix ==
    \A c \in CallIds :
        (Done(c) /\ ModeIs(c, "relationships")) =>
            LET r == calls[c].result
                rels == calls[c].relations
                out == Get(r.content, "relations")
            IN /\ Get(r.content, "entities") = JArr(<<>>)
               /\ IF FitsWhole(GraphOf(JArr(<<>>), rels))
                  THEN out = rels /\ ~r.meta.truncated
                  ELSE /\ IsArr(out)
                       /\ Len(out.v) < Len(rels.v)
                       /\ IsPrefix(out.v, rels.v)
                       /\ r.meta.truncated
                       /\ r.meta.truncationReason =
                             JStr(<<<<"Reduced from ", 1>>,
                                    <<ToString(Len(rels.v)), 1>>, <<" to ", 1>>,
                                    <<ToString(Len(out.v)), 1>>,
                                    <<" relations", 1>>>>)

C7_Witness ==
    \E c \in CallIds :
        /\ Done(c) /\ ModeIs(c, "relationships")
        /\ calls[c].result.meta.truncated
        /\ Len(Get(calls[c].result.content, "relations").v) > 0

\* _prioritizeEntities: the score of an entity
Score(e) ==
    LET name == Get(e, "name")
        obs  == Get(e, "observations").v
    IN (IF Truthy(name) /\ IsStr(name) /\ ~StartsWith(name.v, "_") THEN 5 ELSE 0)
       + (IF FindIncluding(obs, {"docstring", "Description"}, 1) # 0 THEN 10 ELSE 0)
       + (IF Truthy(name) /\ name.v \in {S("__init__"), S("__new__")} THEN 8 ELSE 0)

\* C8: when the API surface is capped at limit, no candidate that was left
\* out has a higher score than one that was kept.
C8_PriorityBeforeCap ==
    \A c \in CallIds :
        (Done(c) /\ ModeIs(c, "smart") /\ ~Failed(c)
         /\ InSeq("apiSurface", SectionsOf(calls[c].result))) =>
            LET api  == Get(calls[c].result.content, "apiSurface")
                kept == Get(api, "classes").v
                cand == ApiCandidates(calls[c].entities, ClassTypes)
                IsKept(e) == \E j \in 1..Len(kept) : Get(kept[j], "name") = Get(e, "name")
            IN \A i, j \in 1..Len(cand) :
                  (~IsKept(cand[i]) /\ IsKept(cand[j])) =>
                      Score(cand[i]) <= Score(cand[j])

\* content with summary.timestamp blanked
WithoutTimestamp(content) ==
    LET sm == Get(content, "summary") IN
    IF IsObj(content) /\ IsObj(sm)
    THEN JObj(PutField(content.v, S("summary"),
                       JObj(PutField(sm.v, S("timestamp"), JNull))))
    ELSE content

\* what the determinism claims compare of a response
Observed(resp) ==
    [content |-> WithoutTimestamp(resp.content),
     tokenCount |-> resp.meta.tokenCount,
     truncated |-> resp.meta.truncated,
     sections |-> SectionsOf(resp)]

SameInput(c, d) ==
    /\ calls[c].entities = calls[d].entities
    /\ calls[c].relations = calls[d].relations
    /\ calls[c].options = calls[d].options

\* C9: two calls with the same entities, relations and options return the
\* same content (summary.timestamp aside), tokenCount, truncated flag and
\* sectionsIncluded.
C9_Deterministic ==
    \A c, d \in CallIds :
        (Done(c) /\ Done(d) /\ SameInput(c, d)) =>
            Observed(calls[c].result) = Observed(calls[d].result)

\* two smart responses to the same input, built at different times
C9_Witness ==
    \E c, d \in CallIds :
        /\ c # d /\ Done(c) /\ Done(d) /\ SameInput(c, d)
        /\ ModeIs(c, "smart") /\ ~Failed(c)
        /\ calls[c].result.content # calls[d].result.content

\* C10: calls in flight together do not disturb each other: same input,
\* same response, whatever ran in between, and each response within the
\* token limit.
C10_ConcurrentCallsIndependent ==
    /\ \A c, d \in CallIds :
          (Done(c) /\ Done(d) /\ SameInput(c, d)) =>
              /\ WithoutTimestamp(calls[c].result.content)
                    = WithoutTimestamp(calls[d].result.content)
              /\ calls[c].result.meta.tokenCount = calls[d].result.meta.tokenCount
              /\ calls[c].result.meta.truncated = calls[d].result.meta.truncated
              /\ calls[c].result.meta.truncationReason
                    = calls[d].result.meta.truncationReason
              /\ SectionsOf(calls[c].result) = SectionsOf(calls[d].result)
    /\ \A c \in CallIds :
          Done(c) => calls[c].result.meta.tokenCount <= TOKEN_BUDGET

\* C12: in every mode a response with meta.truncated true carries a
\* truncationReason string.
C12_TruncatedHasReason ==
    \A c \in CallIds :
        (Done(c) /\ calls[c].result.meta.truncated) =>
            IsStr(calls[c].result.meta.truncationReason)

\* C18: smart mode on 0 entities and 0 relations returns without error, with
\* summary.totalEntities and totalRelations 0, truncated false, tokenCount >= 0
\* and all five sections included.
C18_EmptySmart ==
    \A c \in CallIds :
        (/\ Done(c) /\ ModeIs(c, "smart")
         /\ calls[c].entities = JArr(<<>>) /\ calls[c].relations = JArr(<<>>)) =>
            LET r == calls[c].result
                sm == Get(r.content, "summary")
            IN /\ ~Failed(c)
               /\ IsObj(sm)
               /\ Get(sm, "totalEntities") = JNum(0)
               /\ Get(sm, "totalRelations") = JNum(0)
               /\ ~r.meta.truncated
               /\ r.meta.tokenCount >= 0
               /\ SectionsOf(r) = <<"summary", "structure", "apiSurface",
                                    "dependencies", "relations">>
               /\ \A k \in {"structure", "apiSurface", "dependencies", "relations"} :
                     IsObj(Get(r.content, k))

C18_Witness ==
    \E c \in CallIds :
        /\ Done(c) /\ ModeIs(c, "smart")
        /\ calls[c].entities = JArr(<<>>) /\ calls[c].relations = JArr(<<>>)
        /\ calls[c].result.meta.tokenCount > 0

\* the estimates of the items of a list, added up
TokensOf(items) ==
    Sum([i \in 1..Len(items) |-> estimateTokensWithFormatting(items[i])])

\* the array `out` is `arr` cut as array truncation is specified: a prefix
\* whose total stays within the allotment num/den and that stops only at an
\* item that would overflow
CutWithin(out, arr, num, den) ==
    /\ IsPrefix(out, arr)
    /\ TokensOf(out) * den <= num
    /\ Len(out) < Len(arr) => TokensOf(SubSeq(arr, 1, Len(out) + 1)) * den > num

EndsWithMarker(x) ==
    IsStr(x) /\ Len(x.v) > 0 /\ <<x.v[Len(x.v)]>> = TruncationMarker

C13_ArrayPrefixWithinAllotment ==
    (probe.op = "array" /\ Len(probe.content.v) > 0) =>
        /\ IsArr(probe.out.content)
        /\ CutWithin(probe.out.content.v, probe.content.v,
                     probe.budget.remaining, 1)
        /\ probe.out.truncated <=> Len(probe.out.content.v) < Len(probe.content.v)

\* C14: truncateToFit on an object that does not fit keeps the keys, cuts
\* every array field within a quarter of budget.remaining, replaces every
\* string field longer than 500 characters by its first 500 and the marker,
\* leaves the other fields alone, and reports truncated exactly when a field
\* was altered.
C14_ObjectFieldsTruncated ==
    (/\ probe.op = "truncated" /\ ~probe.threw /\ IsObj(probe.content)
     /\ CeilDiv(PrettyLen(probe.content, 0), 4) > probe.budget.remaining) =>
        LET in  == probe.content.v
            out == probe.out.content
        IN /\ IsObj(out) /\ Len(out.v) = Len(in)
           /\ \A i \in 1..Len(in) :
                 /\ out.v[i][1] = in[i][1]
                 /\ CASE IsArr(in[i][2]) ->
                            /\ IsArr(out.v[i][2])
                            /\ CutWithin(out.v[i][2].v, in[i][2].v,
                                         probe.budget.remaining, 4)
                      [] IsStr(in[i][2]) /\ StrLen(in[i][2].v) > 500 ->
                            out.v[i][2] = JStr(Substring(in[i][2].v, 500)
                                               \o S("...[truncated]"))
                      [] OTHER -> out.v[i][2] = in[i][2]
           /\ probe.out.truncated <=> out # probe.content

\* C15: truncateToFit returns a string whose estimate is within
\* budget.remaining unchanged and not truncated, and any other string as its
\* first floor(remaining * 4 * 0.8) characters followed by '...[truncated]',
\* truncated.
C15_StringCut ==
    (probe.op = "truncated" /\ ~probe.threw /\ IsStr(probe.content)) =>
        IF CeilDiv(StrLen(probe.content.v) + 2, 4) <= probe.budget.remaining
        THEN probe.out = Truncation(probe.content, FALSE)
        ELSE probe.out =
                 Truncation(JStr(Substring(probe.content.v,
                                           (probe.budget.remaining * 32) \div 10)
                                 \o S("...[truncated]")),
                            TRUE)

\* a string cut in its middle
C15_Witness ==
    /\ probe.op = "truncated" /\ IsStr(probe.content)
    /\ probe.out.truncated
    /\ StrLen(probe.out.content.v) > 14
    /\ StrLen(probe.out.content.v) < StrLen(probe.content.v)

C17_ConsumeTokens ==
    (probe.op = "budget" /\ probe.consumed > 0) =>
        /\ probe.budget.used = probe.before.used + probe.tokens
        /\ probe.budget.remaining = probe.before.remaining - probe.tokens
        /\ probe.budget.total = probe.before.total
        /\ probe.budget.remaining = probe.budget.total - probe.budget.used

\* the budget overdrawn by the second of two calls
C17_Witness ==
    /\ probe.op = "budget" /\ probe.consumed = 2
    /\ probe.before.remaining >= 0 /\ probe.budget.remaining < 0

\* C20: estimateTokens(null) and estimateTokens(undefined) return a number
\* >= 0 and do not throw.
C20_EstimateNullish ==
    (probe.op = "estimated" /\ IsNullish(probe.content)) =>
        ~probe.threw /\ probe.tokens >= 0

\* C19: when a section cannot be serialized for its estimate, only that
\* section is cut or left out: a smart response whose summary can be
\* estimated still carries it and is not replaced by the error response.
C19_EstimationFailureLocal ==
    \A c \in CallIds, now \in Times :
        (/\ Done(c) /\ ModeIs(c, "smart")
         /\ HasCycle(GraphOf(calls[c].entities, calls[c].relations))
         /\ ~buildSummarySectionThrows(calls[c].entities, calls[c].relations)
         /\ ~HasCycle(buildSummarySection(calls[c].entities, calls[c].relations,
                                          now))) =>
            /\ ~Failed(c)
            /\ IsObj(Get(calls[c].result.content, "summary"))
            /\ InSeq("summary", SectionsOf(calls[c].result))

\* the place of a section in the order of smart mode, by the name pushed
\* for it and by the step that decides it
SectionRank(name) ==
    CASE name \in {"summary", "summary (truncated)"} -> 1
      [] name \in {"structure", "structure (truncated)"} -> 2
      [] name \in {"apiSurface", "apiSurface (truncated)"} -> 3
      [] name \in {"dependencies", "dependencies (truncated)"} -> 4
      [] name = "relations" -> 5
      [] OTHER -> 0

PcRank(pc) ==
    CASE pc = "summary" -> 1
      [] pc = "structure" -> 2
      [] pc = "apiSurface" -> 3
      [] pc = "dependencies" -> 4
      [] pc = "relations" -> 5
      [] OTHER -> 6

InSectionOrder(q) ==
    /\ \A i \in 1..Len(q) : SectionRank(q[i]) > 0
    /\ \A i, j \in 1..Len(q) : i < j => SectionRank(q[i]) < SectionRank(q[j])

InSmart(c) == calls[c].pc # "idle" /\ ModeOf(calls[c].options) = S("smart")

\* C23: in smart mode every step decides the next section of the order
\* summary, structure, apiSurface, dependencies, relations and no other:
\* sectionsIncluded grows by at most the name of that section, so it stays
\* in that order without duplicates and a section passed over is not taken
\* up again, and budget.used never decreases.
C23_SectionsOnceInOrder ==
    [][\A c \in CallIds : InSmart(c) =>
          LET q  == sectionsIncluded[SectionsCell(c)]
              q2 == sectionsIncluded'[SectionsCell(c)]
              r  == PcRank(calls[c].pc)
          IN /\ InSectionOrder(q2)
             /\ IsPrefix(q, q2) /\ Len(q2) <= Len(q) + 1
             /\ Len(q2) > Len(q) => SectionRank(q2[Len(q2)]) = r
             /\ (r <= 5 /\ calls'[c].pc # calls[c].pc) =>
                    \/ PcRank(calls'[c].pc) = r + 1
                    \/ calls'[c].pc = "awaiting"
             /\ r = 6 => PcRank(calls'[c].pc) = 6
             /\ calls'[c].budget.used >= calls[c].budget.used]_vars

\* structure was passed over, relations was included afterwards, and what
\* is left at the end is more than the reservation of structure
C23_Witness ==
    \E c \in CallIds :
        /\ Done(c) /\ InSmart(c) /\ ~Failed(c)
        /\ \A i \in 1..Len(SectionsOf(calls[c].result)) :
              SectionRank(SectionsOf(calls[c].result)[i]) # 2
        /\ InSeq("relations", SectionsOf(calls[c].result))
        /\ calls[c].budget.remaining > 0

\* the reservation of the section decided at pc, 0 for the summary
ReserveOf(pc) ==
    CASE pc = "structure" -> 1000
      [] pc = "apiSurface" -> 500
      [] pc = "dependencies" -> 300
      [] pc = "relations" -> 200
      [] OTHER -> 0

\* the section decided at pc, built from the arguments of the call
SectionAt(f, pc) ==
    CASE pc = "structure" -> buildFileStructureSection(f.entities)
      [] pc = "apiSurface" ->
            buildApiSurfaceSection(f.entities, f.relations, LimitOf(f.options))
      [] pc = "dependencies" -> buildDependenciesSection(f.entities, f.relations)
      [] pc = "relations" -> buildRelationsSection(f.relations)

\* C24: in smart mode a section other than the summary is tried only when
\* budget.remaining exceeds its reservation (1000, 500, 300, 200): at or
\* below it the step leaves content, sectionsIncluded and the budget alone,
\* and above it a section that fits is included whatever was decided for the
\* sections before.
C24_ReservationGuardsSection ==
    [][\A c \in CallIds :
          (InSmart(c) /\ PcRank(calls[c].pc) \in 2..5
                      /\ calls'[c].pc # calls[c].pc) =>
          LET f   == calls[c]
              g   == calls'[c]
              q   == sectionsIncluded[SectionsCell(c)]
              q2  == sectionsIncluded'[SectionsCell(c)]
              key == f.pc
          IN IF f.budget.remaining <= ReserveOf(f.pc)
             THEN /\ g.smartGraph = f.smartGraph
                  /\ Get(JObj(g.smartGraph), key) = JUndef
                  /\ q2 = q
                  /\ g.budget = f.budget
             ELSE (g.pending.status # "rejected"
                   /\ fitsInBudget(f.budget, SectionAt(f, f.pc))) =>
                      /\ Get(JObj(g.smartGraph), key) = SectionAt(f, f.pc)
                      /\ q2 = Append(q, key)]_vars

\* structure was left out by its reservation and apiSurface, with a smaller
\* one, was included after it
C24_Witness ==
    \E c \in CallIds :
        /\ Done(c) /\ InSmart(c) /\ ~Failed(c)
        /\ Get(calls[c].result.content, "structure") = JUndef
        /\ ~InSeq("structure", SectionsOf(calls[c].result))
        /\ IsObj(Get(calls[c].result.content, "apiSurface"))
        /\ InSeq("apiSurface", SectionsOf(calls[c].result))
        /\ calls[c].budget.remaining > ReserveOf("apiSurface")
        /\ calls[c].budget.remaining <= ReserveOf("structure")

AllSections == <<"summary", "structure", "apiSurface", "dependencies", "relations">>

\* C25: a smart response with a section left out or cut has meta.truncated
\* true; with meta.truncated false all five sections are there in full.
C25_DegradedIsSignalled ==
    \A c \in CallIds :
        (Done(c) /\ InSmart(c) /\ ~Failed(c)) =>
            \/ calls[c].result.meta.truncated
            \/ /\ SectionsOf(calls[c].result) = AllSections
               /\ \A i \in 1..Len(AllSections) :
                     Get(calls[c].result.content, AllSections[i]) # JUndef

InShrinkLoop(c) == calls[c].pc \in {"shrinkEntities", "shrinkRelations"}

\* the candidate of the loop of call c as a response content
Candidate(f) ==
    IF f.pc = "shrinkEntities" THEN GraphOf(JArr(f.work), JArr(<<>>))
    ELSE GraphOf(JArr(<<>>), JArr(f.work))

\* C26: the shrinking loops of entities and relationships mode end for
\* every input: a turn takes a candidate of n >= 1 items that does not fit
\* to its first floor(0.8 * n) items, fewer than n; the loop leaves at the
\* first candidate that fits or is empty, and returns it, a prefix of the
\* list it started from.
C26_ShrinkTerminates ==
    /\ [][\A c \in CallIds : InShrinkLoop(c) =>
             LET f == calls[c]
                 g == calls'[c]
                 n == Len(f.work)
             IN /\ IsPrefix(f.work, f.filtered)
                /\ IF g.pc = f.pc
                   THEN /\ n >= 1 /\ ~fitsInBudget(f.budget, Candidate(f))
                        /\ Len(g.work) = (n * 8) \div 10
                        /\ Len(g.work) < n
                        /\ IsPrefix(g.work, f.work)
                   ELSE /\ n = 0 \/ fitsInBudget(f.budget, Candidate(f))
                        /\ g.pending.status = "fulfilled"
                        /\ g.pending.resp.content = Candidate(f)]_vars
    /\ \A c \in CallIds : InShrinkLoop(c) ~> Done(c)

\* a loop that went from five items down to none of them
C26_Witness ==
    \E c \in CallIds :
        /\ Done(c) /\ ~Failed(c)
        /\ Len(calls[c].filtered) >= 2 /\ calls[c].work = <<>>
        /\ calls[c].result.meta.truncated

UsageTypes == {S("calls"), S("uses"), S("implements")}

\* the relations of list R whose type is in `types`, in input order
OfTypes(R, types) == SelectSeq(R, LAMBDA r : Get(r, "relationType").v \in types)

\* the first n items of list q
FirstN(q, n) == SubSeq(q, 1, IF Len(q) < n THEN Len(q) ELSE n)

\* the relations section as the claim words it, each list cut at n items
RelationsSectionCapped(R, n) ==
    LET inh == FirstN(OfTypes(R, {S("inherits")}), n)
        use == FirstN(OfTypes(R, UsageTypes), n)
    IN JObj(<< <<S("inheritance"),
                 JArr([i \in 1..Len(inh) |->
                         JObj(<< <<S("from"), Get(inh[i], "from")>>,
                                 <<S("to"), Get(inh[i], "to")>> >>)])>>,
               <<S("keyUsages"),
                 JArr([i \in 1..Len(use) |->
                         JObj(<< <<S("from"), Get(use[i], "from")>>,
                                 <<S("to"), Get(use[i], "to")>>,
                                 <<S("type"), Get(use[i], "relationType")>> >>)])>> >>)

\* C27: the relations section of a smart response has every 'inherits'
\* relation as {from, to} in inheritance and the first 30 'calls', 'uses'
\* and 'implements' relations, in input order, in keyUsages, and relations
\* beyond the caps add nothing to its size.
C27_RelationsSectionCapped ==
    \A c \in CallIds :
        (/\ Done(c) /\ InSmart(c) /\ ~Failed(c)
         /\ InSeq("relations", SectionsOf(calls[c].result))) =>
            LET R   == calls[c].relations.v
                rel == Get(calls[c].result.content, "relations")
            IN /\ Get(rel, "inheritance")
                     = Get(RelationsSectionCapped(R, Len(R)), "inheritance")
               /\ Get(rel, "keyUsages")
                     = Get(RelationsSectionCapped(R, 30), "keyUsages")
               /\ PrettyLen(rel, 0) <= PrettyLen(RelationsSectionCapped(R, 30), 0)

\* C22: a call of connect() sends at most three requests and waits 2000 ms
\* after the first failure and 4000 ms after the second; the first request
\* that succeeds sets initialized and ends the call; after three failures
\* the call throws 'Failed to connect to Qdrant after multiple attempts';
\* a call that begins when initialized is already set sends no request.
C22_ConnectRetries ==
    \A k \in OpIds :
        LET f == ops[k] IN
        f.name = "connect" =>
            /\ f.requests <= 3
            /\ \E n \in 0..2 : f.timers = SubSeq(<<2000, 4000>>, 1, n)
            /\ f.pc \in {"try", "waiting"} => Len(f.timers) = f.requests
            /\ f.pc = "inflight" => Len(f.timers) = f.requests - 1
            /\ f.pc = "thrown" =>
                  /\ f.requests = 3
                  /\ f.timers = <<2000, 4000>>
                  /\ f.error = "Failed to connect to Qdrant after multiple attempts"
            /\ (f.pc = "returned" /\ ~f.sawInitialized) =>
                  /\ qdrant.initialized
                  /\ f.requests \in 1..3
                  /\ Len(f.timers) = f.requests - 1
            /\ f.sawInitialized =>
                  /\ f.pc = "returned"
                  /\ f.requests = 0
                  /\ f.timers = <<>>

C22_Witness ==
    /\ ops[1].pc = "returned" /\ ops[1].requests = 3
    /\ ops[1].timers = <<2000, 4000>>
    /\ ops[2].pc = "returned" /\ ops[2].sawInitialized
    /\ ops[2].requests = 0

\* the relations and the entity names a collection holds
StoredRelations(points) ==
    {RelationOf(p.from, p.relation_type, p.to) :
        p \in {q \in points : q.chunk_type = "relation"}}
StoredNames(points) ==
    {p.entity_name : p \in {q \in points : q.chunk_type = "metadata"}}
ItemsOf(q) == {q[n] : n \in 1..Len(q)}

\* C21: when every create_entities, create_relations, delete_entities and
\* delete_relations call made so far has completed, one after the other,
\* every stored relation has a from and a to that name stored entities.
C21_ReferentialIntegrity ==
    (\A k \in OpIds : Finished(k)) =>
        \A r \in StoredRelations(Collection(qdrant)) :
            /\ r.from \in StoredNames(Collection(qdrant))
            /\ r.to \in StoredNames(Collection(qdrant))

\* C28: the graph a call reads at its start holds every relation chunk of
\* the collection, on whichever scroll page the chunk lies, also when the
\* entities were cut at the limit.
C28_RelationsBeyondLimit ==
    [][\A k \in OpIds :
          (~ops[k].snapped /\ ops'[k].snapped) =>
              ItemsOf(ops'[k].snapshot.relations)
                  = StoredRelations(Collection(qdrant))]_vars

MissingEndpoint(graph, r) == ~InGraph(graph, r.from) \/ ~InGraph(graph, r.to)

\* C29: create_relations persists the relations of a request in request
\* order, each after finding both its endpoints in the one graph read at the
\* start; at the first relation k with an endpoint missing from that graph
\* the call fails with 'Entity not found: ' and the missing name, what was
\* persisted before k stays as it is, and the call persists nothing more.
C29_CreateRelationsOneByOne ==
    /\ [](\A k \in OpIds :
            LET f == ops[k]
                n == Len(f.upserts)
            IN  f.name = "create_relations" =>
                  /\ n <= Len(f.args)
                  /\ \A m \in 1..n :
                        /\ f.upserts[m].relation = f.args[m]
                        /\ ~MissingEndpoint(f.snapshot, f.args[m])
                  /\ f.pc = "done" => n = Len(f.args)
                  /\ f.pc = "failed" =>
                        /\ n < Len(f.args)
                        /\ MissingEndpoint(f.snapshot, f.args[n + 1])
                        /\ f.error \in
                              {"Entity not found: " \o e :
                                  e \in {x \in {f.args[n + 1].from,
                                                f.args[n + 1].to} :
                                            ~InGraph(f.snapshot, x)}}
                        /\ ~InGraph(f.snapshot, f.args[n + 1].from) =>
                              f.error = "Entity not found: "
                                            \o f.args[n + 1].from)
    /\ [][\A k \in OpIds :
            LET f == ops[k] IN
            f.name = "create_relations" =>
              /\ f.pc = "failed" => (ops'[k] = f)
              /\ ops'[k].snapshot # f.snapshot => f.pc = "idle"
              /\ ops'[k].pc = "failed" /\ f.pc # "failed" =>
                    qdrant'.points = qdrant.points
              /\ ops'[k].upserts # f.upserts =>
                    /\ Len(ops'[k].upserts) = Len(f.upserts) + 1
                    /\ ops'[k].upserts[Len(f.upserts) + 1].relation
                          = f.args[f.i]
                    /\ \A m \in 1..Len(f.upserts) :
                          ops'[k].upserts[m] = f.upserts[m]
                    /\ RelationChunk(f.args[f.i]) \in qdrant'.points]_vars

C29_Witness ==
    \E k \in OpIds :
        /\ ops[k].pc = "failed"
        /\ ops[k].args = <<rAB, rAC, rBA>>
        /\ ops[k].error = "Entity not found: C"
        /\ Len(ops[k].upserts) = 1
        /\ StoredRelations(Collection(qdrant)) = {rAB}

\* C30: with a create_relations call c and a delete_entities call d both
\* returned and no other call made: a relation c persisted after d read its
\* graph is still stored, and when d returned between the graph read of c
\* and that persist, the endpoints of the relation that d deleted are not
\* stored.
C30_SnapshotRace ==
    \A c \in OpIds, d \in OpIds :
        (/\ ops[c].name = "create_relations" /\ ops[c].pc = "done"
         /\ ops[d].name = "delete_entities" /\ ops[d].pc = "done"
         /\ \A o \in OpIds \ {c, d} : ops[o].pc = "idle") =>
            \A n \in 1..Len(ops[c].upserts) :
                LET u == ops[c].upserts[n] IN
                /\ d \in u.snapped =>
                      u.relation \in StoredRelations(Collection(qdrant))
                /\ (c \in ops[d].readBefore /\ d \in u.returned) =>
                      \A e \in {u.relation.from, u.relation.to}
                                  \cap ItemsOf(ops[d].args) :
                          e \notin StoredNames(Collection(qdrant))

C30_Witness ==
    \E c \in OpIds, d \in OpIds :
        /\ ops[c].name = "create_relations" /\ ops[c].pc = "done"
        /\ ops[d].name = "delete_entities" /\ ops[d].pc = "done"
        /\ c \in ops[d].readBefore
        /\ \E n \in 1..Len(ops[c].upserts) :
              /\ d \in ops[c].upserts[n].returned
              /\ ops[c].upserts[n].relation = rAB
        /\ "A" \in ItemsOf(ops[d].args)
        /\ rAB \in StoredRelations(Collection(qdrant))
        /\ "A" \notin StoredNames(Collection(qdrant))

====
